---- MODULE Spec2Model ----
(***************************************************************************)
(* Model of the vibe-forex pattern mining programs:                        *)
(*   - the two Python mining scripts the TypeScript services generate      *)
(*     (KaggleApiClient.generateNotebookCode, called "notebook" below, and *)
(*     DirectKaggleService.generateKernelCode, called "kernel" below),     *)
(*   - the statistics producers (both scripts, the analyze endpoint, the   *)
(*     demo result generator),                                             *)
(*   - the submit and results routes with KaggleApiClient.getJobResults.   *)
(*                                                                         *)
(* Real numbers are fixed-point integers in units of 1/SCALE; a division   *)
(* rounds toward zero.  Library calls whose code is not part of the        *)
(* repository (numpy's generator, sklearn's KMeans and silhouette_score,   *)
(* Math.random, the Kaggle HTTP API) are oracles: their answers are drawn  *)
(* from small families chosen in the initial state.                        *)
(***************************************************************************)
EXTENDS Integers, Sequences, FiniteSets, TLC

\* ------------------------------------------------------------------ bounds
MaxDataPoints == 16
MaxWindowSize == 5
MaxPrice == 3
LongDataPoints == 83
NumEntropy == 2

\* ------------------------------------------------------- fixed-point reals
SCALE == 10000

Abs(x) == IF x < 0 THEN -x ELSE x
Max2(a, b) == IF a >= b THEN a ELSE b
Min2(a, b) == IF a <= b THEN a ELSE b

\* a / b on machine numbers, rounded toward zero (b > 0)
FpDiv(a, b) == IF a >= 0 THEN a \div b ELSE -((-a) \div b)
\* product of two fixed-point numbers
FpMul(a, b) == FpDiv(a * b, SCALE)

RECURSIVE SumSeq(_)
SumSeq(s) ==
    IF s = <<>> THEN 0
    ELSE IF Len(s) = 1 THEN s[1]
    ELSE LET half == Len(s) \div 2
         IN  SumSeq(SubSeq(s, 1, half)) + SumSeq(SubSeq(s, half + 1, Len(s)))

RECURSIVE MaxSeq(_)
MaxSeq(s) ==
    IF Len(s) = 1 THEN s[1]
    ELSE LET half == Len(s) \div 2
             left == MaxSeq(SubSeq(s, 1, half))
             right == MaxSeq(SubSeq(s, half + 1, Len(s)))
         IN  Max2(left, right)

RECURSIVE MinSeq(_)
MinSeq(s) ==
    IF Len(s) = 1 THEN s[1]
    ELSE LET half == Len(s) \div 2
             left == MinSeq(SubSeq(s, 1, half))
             right == MinSeq(SubSeq(s, half + 1, Len(s)))
         IN  Min2(left, right)

RECURSIVE ISqrtSearch(_, _, _)
ISqrtSearch(lo, hi, x) ==
    IF lo >= hi THEN lo
    ELSE LET mid == (lo + hi + 1) \div 2
         IN IF mid * mid <= x THEN ISqrtSearch(mid, hi, x)
                              ELSE ISqrtSearch(lo, mid - 1, x)

\* floor of the square root of a natural number
ISqrt(x) == ISqrtSearch(0, 46340, x)

\* square root of a fixed-point number (x < 200000)
FpSqrt(x) == ISqrt(x * SCALE)

\* np.mean of a non-empty list; of an empty list numpy answers nan, which
\* no caller of this model consumes: the value 0 stands for it
NpMean(s) == IF s = <<>> THEN 0 ELSE FpDiv(SumSeq(s), Len(s))

\* np.var: population variance
NpVar(s) ==
    IF s = <<>> THEN 0
    ELSE LET m == NpMean(s)
         IN FpDiv(SumSeq([i \in 1..Len(s) |-> FpMul(s[i] - m, s[i] - m)]), Len(s))

\* np.std: population standard deviation
NpStd(s) == FpSqrt(NpVar(s))

\* np.diff
NpDiff(s) == [i \in 1..(Len(s) - 1) |-> s[i + 1] - s[i]]

\* ------------------------------------------------ library oracles (numpy)
\* state of numpy's global generator: the stream it was seeded with and the
\* number of calls made since
SeedValue == 42
EntropyStreams == 0..(NumEntropy - 1)
NumpyFamilies == {"flat", "zigzag", "ramp", "noisy"}

HashMod == 11
Hash(stream, pos) == (stream * 7 + pos * pos * 3 + pos * 5 + 1) % HashMod

\* np.random.seed(s)
NpSeed(s) == [stream |-> s, pos |-> 0]
\* the generator after one more call
NpAdvance(rng, calls) == [rng EXCEPT !.pos = @ + calls]
\* np.random.normal(0, sigma): a value of the generator's current state
NpNormal(rng, sigma) == ((Hash(rng.stream, rng.pos) % 5) - 2) * sigma
\* np.random.choice(values, size = len(values), replace = True)
NpChoice(rng, values) ==
    [m \in 1..Len(values) |->
        values[1 + ((Hash(rng.stream, rng.pos) + m * (1 + (rng.pos % 3))) % Len(values))]]

\* ------------------------------------------- library oracles (sklearn)
KMeansFamilies == {"single", "roundrobin", "bysign", "halves"}

\* KMeans(n_clusters = k, random_state = 42, n_init = 10).fit_predict(X):
\* a labelling of the rows of X with labels in 0..k-1 that depends on X and
\* k only (random_state is fixed); trends is the first column of X
KMeansLabels(family, trends, k) ==
    LET n == Len(trends)
    IN [i \in 1..n |->
          CASE family = "single" -> 0
            [] family = "roundrobin" -> (i - 1) % k
            [] family = "bysign" ->
                 IF trends[i] < 0 THEN 0 ELSE IF trends[i] > 0 THEN 1 ELSE 2
            [] OTHER -> IF i <= n \div 2 THEN 0 ELSE 1]

\* silhouette_score(X, labels): a number in [-1, 1]
FamilyIndex(family) ==
    CASE family = "single" -> 0 [] family = "roundrobin" -> 1
      [] family = "bysign" -> 2 [] OTHER -> 3
SilhouetteScore(family, k) ==
    ((((k * 37) + (FamilyIndex(family) * 5)) % 21) - 10) * (SCALE \div 10)

\* --------------------------------------------------- generate_forex_data
\* price of the first bar, in ticks
BasePrice == 2

\* the close prices generate_forex_data builds from the generator's normal
\* draws: prices = [base_price], then one price per i in range(1, n_points)
Closes(family, stream, nPoints) ==
    [i \in 1..Max2(1, nPoints) |->
        IF i = 1 THEN BasePrice
        ELSE CASE family = "flat" -> BasePrice
               [] family = "zigzag" -> 1 + ((i + stream) % 2)
               [] family = "ramp" -> 1 + ((i + stream) % MaxPrice)
               [] OTHER -> 1 + (Hash(stream, i) % MaxPrice)]

\* calls made on the generator by generate_forex_data of the kernel script:
\* one normal per price, one random per price after the 50th, then one
\* normal and one randint per bar
KernelGenerateCalls(nPoints) ==
    Max2(0, nPoints - 1) + Max2(0, nPoints - 51) + 2 * Max2(1, nPoints)

\* the same for the notebook script: one normal per price, two per bar
NotebookGenerateCalls(nPoints) == Max2(0, nPoints - 1) + 2 * Max2(1, nPoints)

\* a generate_forex_data without the np.random.seed(42) call
KernelGenerateUnseeded(family, rng, nPoints) ==
    [closes |-> Closes(family, rng.stream, nPoints),
     rng |-> NpAdvance(rng, KernelGenerateCalls(nPoints))]

\* DirectKaggleService script: generate_forex_data seeds the generator itself
KernelGenerateForexData(family, rng, nPoints) ==
    LET seeded == NpSeed(SeedValue)
    IN [closes |-> Closes(family, seeded.stream, nPoints),
        rng |-> NpAdvance(seeded, KernelGenerateCalls(nPoints))]

\* KaggleApiClient script: the generator was seeded when the script started
NotebookGenerateForexData(family, rng, nPoints) ==
    [closes |-> Closes(family, rng.stream, nPoints),
     rng |-> NpAdvance(rng, NotebookGenerateCalls(nPoints))]

\* timestamp of bar i in seconds after 2024-01-01 00:00:00: the kernel
\* script spaces the bars by 15 minutes, the notebook script by one minute
KernelBarSeconds(i) == i * 15 * 60
NotebookBarSeconds(i) == i * 60

\* ------------------------------------------- kernel script: the features
\* MinMaxScaler().fit_transform: a constant column is mapped to zeros
MinMaxScale(closes) ==
    LET lo == MinSeq(closes)
        hi == MaxSeq(closes)
    IN [j \in 1..Len(closes) |->
          IF hi = lo THEN 0 ELSE FpDiv((closes[j] - lo) * SCALE, hi - lo)]

\* np.diff(closes) / closes[:-1]
SimpleReturns(closes) ==
    [j \in 1..(Len(closes) - 1) |-> FpDiv((closes[j + 1] - closes[j]) * SCALE, closes[j])]

calculate_pattern_features(closes) ==
    LET normalized_prices == MinMaxScale(closes)
        returns == SimpleReturns(closes)
        w == Len(closes)
    IN [normalized_prices |-> normalized_prices,
        trend |-> normalized_prices[w] - normalized_prices[1],
        volatility |-> NpStd(returns),
        momentum |-> NpMean(returns),
        price_range |-> FpDiv((MaxSeq(closes) - MinSeq(closes)) * SCALE, closes[1]),
        pattern_strength |-> NpStd(normalized_prices)
                               + Abs(normalized_prices[w] - normalized_prices[1])]

\* data.iloc[i:i+window_size]['close'] for the 0-based start index i
WindowCloses(closes, i, windowSize) == SubSeq(closes, i + 1, i + windowSize)

\* a loop that also visits the last full window: range(len(data) - window_size + 1)
StartIndicesInclusive(closes, windowSize) ==
    [j \in 1..Max2(0, Len(closes) - windowSize + 1) |-> j - 1]

\* range(len(data) - window_size) as a sequence of start indices
StartIndices(closes, windowSize) ==
    [j \in 1..Max2(0, Len(closes) - windowSize) |-> j - 1]

\* a floor below every pattern strength
KernelNoiseFloorNegative == 0 - 1
\* the hard-coded floor of the kernel script's filter
KernelNoiseFloor == 500

\* the windows the loop of extract_sliding_window_patterns keeps
KernelWindows(closes, windowSize) ==
    LET Strong(i) ==
          calculate_pattern_features(WindowCloses(closes, i, windowSize)).pattern_strength
             > KernelNoiseFloor
        kept == SelectSeq(StartIndices(closes, windowSize), Strong)
    IN [j \in 1..Len(kept) |->
          [start_idx |-> kept[j], end_idx |-> kept[j] + windowSize,
           features |-> calculate_pattern_features(WindowCloses(closes, kept[j], windowSize))]]

\* ------------------------------------- kernel script: clustering, patterns
\* an id without the zero padding
PatternIdUnpadded(cluster_id) == "pattern_" \o ToString(cluster_id)
\* f'pattern_{cluster_id:03d}'
PatternId(cluster_id) ==
    "pattern_" \o (IF cluster_id < 10 THEN "00"
                   ELSE IF cluster_id < 100 THEN "0" ELSE "") \o ToString(cluster_id)

\* np.argmax: index (from 1) of the first largest element
RECURSIVE ArgMaxFrom(_, _, _)
ArgMaxFrom(s, i, best) ==
    IF i > Len(s) THEN best
    ELSE ArgMaxFrom(s, i + 1, IF s[i] > s[best] THEN i ELSE best)
NpArgMax(s) == ArgMaxFrom(s, 2, 1)

\* np.mean(shapes, axis = 0)
MeanShape(shapes) ==
    [j \in 1..Len(shapes[1]) |-> NpMean([m \in 1..Len(shapes) |-> shapes[m][j]])]

\* the members of one cluster, in window order
ClusterWindows(windows, labels, cluster_id) ==
    LET InCluster(i) == labels[i] = cluster_id
        idx == SelectSeq([i \in 1..Len(windows) |-> i], InCluster)
    IN [j \in 1..Len(idx) |-> windows[idx[j]]]

estimate_pattern_profitability(rng, avg_trend, avg_volatility) ==
    LET base_profit == avg_trend * 50
        volatility_penalty == avg_volatility * 100
        noise == NpNormal(rng, 100)
        profitability == base_profit - volatility_penalty + noise
    IN Max2(-800, Min2(1200, profitability))

\* np.mean(trends) / (np.std(trends) / np.sqrt(len(trends)) + 1e-8); the
\* 1e-8 is below the resolution of the fixed-point numbers: a zero standard
\* error gives a quotient of magnitude 1e8 * |mean|, written TStatHuge
TStatHuge == 1000 * SCALE
TStat(trends) ==
    LET mean == NpMean(trends)
        stderr == FpDiv(NpStd(trends) * 100, ISqrt(Len(trends) * SCALE))
    IN IF stderr = 0
       THEN (IF mean = 0 THEN 0 ELSE IF mean > 0 THEN TStatHuge ELSE -TStatHuge)
       ELSE FpDiv(mean * SCALE, stderr)

KernelSignificance(trends) == Min2(9900, Max2(1000, FpDiv(Abs(TStat(trends)), 10)))

\* max(0.5, 1.0 / (1.0 + variance * 1000))
KernelConfidence(trends) ==
    Max2(5000, FpDiv(SCALE * SCALE, SCALE + NpVar(trends) * 1000))

\* a classification that looks at the trend only
KernelPatternTypeTrendOnly(avg_trend, avg_momentum) ==
    IF avg_trend > 100 THEN "bullish"
    ELSE IF avg_trend < -100 THEN "bearish"
    ELSE "neutral"
\* the if / elif / else on avg_trend (threshold 0.01) and avg_momentum
KernelPatternType(avg_trend, avg_momentum) ==
    IF avg_trend > 100 /\ avg_momentum > 0 THEN "bullish"
    ELSE IF avg_trend < -100 /\ avg_momentum < 0 THEN "bearish"
    ELSE "neutral"

\* a ratio that takes the magnitude where the code clamps at 0
PySharpeRatioAbs(profitability, volatility) ==
    Abs(FpDiv(profitability * SCALE, volatility + 10))
\* max(0, profitability / (volatility + 0.001))
PySharpeRatio(profitability, volatility) ==
    Max2(0, FpDiv(profitability * SCALE, volatility + 10))

create_representative_pattern(rng, cluster_windows, cluster_id, support) ==
    LET n == Len(cluster_windows)
        trends == [i \in 1..n |-> cluster_windows[i].features.trend]
        avg_trend == NpMean(trends)
        avg_volatility == NpMean([i \in 1..n |-> cluster_windows[i].features.volatility])
        avg_momentum == NpMean([i \in 1..n |-> cluster_windows[i].features.momentum])
        pattern_type == KernelPatternType(avg_trend, avg_momentum)
        confidence == KernelConfidence(trends)
        significance == KernelSignificance(trends)
        avg_shape == MeanShape([i \in 1..n |-> cluster_windows[i].features.normalized_prices])
        profitability == estimate_pattern_profitability(rng, avg_trend, avg_volatility)
    IN [id |-> PatternId(cluster_id),
        type |-> pattern_type,
        support |-> support,
        confidence |-> confidence,
        significance |-> significance,
        profitability |-> profitability,
        winRate |-> FpDiv(confidence * 8, 10),
        avgReturn |-> profitability,
        maxDrawdown |-> avg_volatility * 2,
        sharpeRatio |-> PySharpeRatio(profitability, avg_volatility),
        pricePoints |-> avg_shape,
        duration |-> Len(avg_shape),
        frequency |-> n,
        firstSeen |-> "2024-01-01T00:00:00Z",
        lastSeen |-> "2024-01-31T23:59:59Z"]

\* the support and size test of the kernel script
KernelMinClusterSize == 5
\* a filter that forgets the support threshold
KernelRetainedAnySupport(size, total, min_support) == size >= KernelMinClusterSize
\* a filter that forgets the size floor
KernelRetainedAnySize(size, total, min_support) ==
    FpDiv(size * SCALE, total) >= min_support
KernelRetained(size, total, min_support) ==
    FpDiv(size * SCALE, total) >= min_support /\ size >= KernelMinClusterSize

\* the cluster-count sweep: the chosen number of clusters
KernelOptimalClusters(family, trends) ==
    LET n == Len(trends)
        max_clusters == IF Min2(15, n \div 20) < 3 THEN 3 ELSE Min2(15, n \div 20)
        silhouette_scores ==
            [j \in 1..(max_clusters - 2) |->
                LET n_clusters == j + 2
                    cluster_labels == KMeansLabels(family, trends, n_clusters)
                IN IF Cardinality({cluster_labels[i] : i \in 1..n}) > 1
                   THEN SilhouetteScore(family, n_clusters)
                   ELSE -SCALE]
    IN NpArgMax(silhouette_scores) + 2

\* the loop over cluster ids of cluster_and_filter_patterns; each created
\* pattern makes one call on the generator
RECURSIVE KernelFilterFrom(_, _, _, _, _, _, _)
KernelFilterFrom(cluster_id, optimal, windows, labels, min_support, rng, acc) ==
    IF cluster_id >= optimal THEN [patterns |-> acc, rng |-> rng]
    ELSE LET cluster_windows == ClusterWindows(windows, labels, cluster_id)
             size == Len(cluster_windows)
             support == FpDiv(size * SCALE, Len(windows))
         IN IF KernelRetained(size, Len(windows), min_support)
            THEN KernelFilterFrom(cluster_id + 1, optimal, windows, labels, min_support,
                     NpAdvance(rng, 1),
                     Append(acc, create_representative_pattern(rng, cluster_windows,
                                                               cluster_id, support)))
            ELSE KernelFilterFrom(cluster_id + 1, optimal, windows, labels, min_support,
                                  rng, acc)

cluster_and_filter_patterns(family, rng, windows, min_support) ==
    LET trends == [i \in 1..Len(windows) |-> windows[i].features.trend]
        optimal_clusters == KernelOptimalClusters(family, trends)
        cluster_labels == KMeansLabels(family, trends, optimal_clusters)
    IN KernelFilterFrom(0, optimal_clusters, windows, cluster_labels, min_support, rng, <<>>)

\* fewer windows than this: no clustering
MinWindowsForClustering == 10

\* extract_sliding_window_patterns; an empty window (window_size 0) makes
\* MinMaxScaler raise ValueError
extract_sliding_window_patterns(family, rng, closes, windowSize, min_support) ==
    IF windowSize = 0 /\ Len(closes) > 0
    THEN [raised |-> TRUE, processed |-> 0, clustered |-> FALSE,
          windows |-> <<>>, patterns |-> <<>>, rng |-> rng]
    ELSE LET windows == KernelWindows(closes, windowSize)
             processed == Len(StartIndices(closes, windowSize))
         IN IF Len(windows) < MinWindowsForClustering
            THEN [raised |-> FALSE, processed |-> processed, clustered |-> FALSE,
                  windows |-> windows, patterns |-> <<>>, rng |-> rng]
            ELSE LET r == cluster_and_filter_patterns(family, rng, windows, min_support)
                 IN [raised |-> FALSE, processed |-> processed, clustered |-> TRUE,
                     windows |-> windows, patterns |-> r.patterns, rng |-> r.rng]

\* ---------------------------------------- kernel script: the statistics
\* params.timeFrame.value of the request
TimeFrameValue == "1h"

Column(patterns, field) == [i \in 1..Len(patterns) |-> patterns[i][field]]

\* max(patterns, key = profitability): the first pattern with the largest key
RECURSIVE PyMaxFrom(_, _, _)
PyMaxFrom(patterns, i, best) ==
    IF i > Len(patterns) THEN patterns[best]
    ELSE PyMaxFrom(patterns, i + 1,
             IF patterns[i].profitability > patterns[best].profitability THEN i ELSE best)
PyMaxByProfitability(patterns) == PyMaxFrom(patterns, 2, 1)

RECURSIVE PyMinFrom(_, _, _)
PyMinFrom(patterns, i, worst) ==
    IF i > Len(patterns) THEN patterns[worst]
    ELSE PyMinFrom(patterns, i + 1,
             IF patterns[i].profitability < patterns[worst].profitability THEN i ELSE worst)
PyMinByProfitability(patterns) == PyMinFrom(patterns, 2, 1)

\* the histogram of pattern types
TypeFrequency(patterns) ==
    [t \in {patterns[i].type : i \in 1..Len(patterns)} |->
        Cardinality({i \in 1..Len(patterns) : patterns[i].type = t})]

empty_statistics ==
    [totalPatterns |-> 0, uniquePatterns |-> 0, avgConfidence |-> 0,
     avgSupport |-> 0, overallProfitability |-> 0, avgWinRate |-> 0,
     avgSharpeRatio |-> 0, bestPattern |-> "", worstPattern |-> "",
     patternFrequency |-> <<>>, crossValidationScore |-> 0,
     bootstrapConfidence |-> 0,
     outOfSampleResults |-> [winRate |-> 0, avgReturn |-> 0, sharpeRatio |-> 0],
     timeFrameDistribution |-> <<>>]

calculate_comprehensive_statistics(patterns) ==
    IF patterns = <<>> THEN empty_statistics
    ELSE LET n == Len(patterns)
             avgWinRate == NpMean(Column(patterns, "winRate"))
             overallProfitability == NpMean(Column(patterns, "profitability"))
             avgSharpeRatio == NpMean(Column(patterns, "sharpeRatio"))
             profitable_count ==
                 Cardinality({i \in 1..n : patterns[i].profitability > 0})
         IN [totalPatterns |-> n,
             uniquePatterns |-> Cardinality({patterns[i].type : i \in 1..n}),
             avgConfidence |-> NpMean(Column(patterns, "confidence")),
             avgSupport |-> NpMean(Column(patterns, "support")),
             avgSignificance |-> NpMean(Column(patterns, "significance")),
             overallProfitability |-> overallProfitability,
             avgWinRate |-> avgWinRate,
             avgSharpeRatio |-> avgSharpeRatio,
             patternFrequency |-> TypeFrequency(patterns),
             bestPattern |-> PyMaxByProfitability(patterns).id,
             worstPattern |-> PyMinByProfitability(patterns).id,
             crossValidationScore |-> FpDiv(profitable_count * SCALE, n),
             bootstrapConfidence |->
                 NpMean([i \in 1..n |->
                            FpMul(patterns[i].confidence, patterns[i].significance)]),
             outOfSampleResults |->
                 [winRate |-> FpDiv(avgWinRate * 85, 100),
                  avgReturn |-> FpDiv(overallProfitability * 8, 10),
                  sharpeRatio |-> FpDiv(avgSharpeRatio * 75, 100)],
             timeFrameDistribution |-> (TimeFrameValue :> n)]

\* ------------------------------------------------------ notebook script
\* (window - window[0]) / window[0]
BaseRelative(closes) ==
    [j \in 1..Len(closes) |-> FpDiv((closes[j] - closes[1]) * SCALE, closes[1])]

NotebookFeatures(closes) ==
    LET normalized == BaseRelative(closes)
    IN [normalized |-> normalized,
        trend |-> normalized[Len(closes)] - normalized[1],
        volatility |-> NpStd(normalized),
        momentum |-> NpMean(NpDiff(normalized))]

\* the hard-coded floor of the notebook script's filter (0.0001)
NotebookNoiseFloor == 1

\* the windows the loop of extract_patterns keeps
NotebookWindows(closes, windowSize) ==
    LET Loud(i) ==
          NotebookFeatures(WindowCloses(closes, i, windowSize)).volatility
             > NotebookNoiseFloor
        kept == SelectSeq(StartIndices(closes, windowSize), Loud)
    IN [j \in 1..Len(kept) |->
          [index |-> kept[j],
           features |-> NotebookFeatures(WindowCloses(closes, kept[j], windowSize))]]

\* number of resamples of create_pattern's bootstrap
NotebookBootstrapRounds == 100

\* the bootstrap of create_pattern: round b makes the b-th call on the
\* generator; the result is max(0.1, 1 - p_value)
NotebookSignificance(rng, trends) ==
    LET observed_mean == NpMean(trends)
        bootstrap_means ==
            [b \in 1..NotebookBootstrapRounds |->
                NpMean(NpChoice(NpAdvance(rng, b - 1), trends))]
        hits == Cardinality({b \in 1..NotebookBootstrapRounds :
                                Abs(bootstrap_means[b]) >= Abs(observed_mean)})
        p_value == FpDiv(hits * SCALE, NotebookBootstrapRounds)
    IN Max2(1000, SCALE - p_value)

\* max(0.5, 1.0 / (1.0 + trend_std * 1000))
NotebookConfidence(trends) ==
    Max2(5000, FpDiv(SCALE * SCALE, SCALE + NpStd(trends) * 1000))

\* the if / elif / else on avg_trend (threshold 0.002) and avg_momentum
NotebookPatternType(avg_trend, avg_momentum) ==
    IF avg_trend > 20 /\ avg_momentum > 0 THEN "bullish"
    ELSE IF avg_trend < -20 /\ avg_momentum < 0 THEN "bearish"
    ELSE "neutral"

create_pattern(rng, cluster_windows, cluster_id, support) ==
    LET n == Len(cluster_windows)
        trends == [i \in 1..n |-> cluster_windows[i].features.trend]
        avg_trend == NpMean(trends)
        avg_vol == NpMean([i \in 1..n |-> cluster_windows[i].features.volatility])
        avg_momentum == NpMean([i \in 1..n |-> cluster_windows[i].features.momentum])
        pattern_type == NotebookPatternType(avg_trend, avg_momentum)
        confidence == NotebookConfidence(trends)
        significance == NotebookSignificance(rng, trends)
        noise == NpNormal(NpAdvance(rng, NotebookBootstrapRounds), 200)
        profitability == Max2(-1000, Min2(1500, avg_trend * 50 + noise))
        avg_shape == MeanShape([i \in 1..n |-> cluster_windows[i].features.normalized])
    IN [id |-> PatternId(cluster_id),
        type |-> pattern_type,
        support |-> support,
        confidence |-> confidence,
        significance |-> significance,
        profitability |-> profitability,
        winRate |-> FpDiv(confidence * 8, 10),
        avgReturn |-> profitability,
        maxDrawdown |-> FpDiv(Abs(avg_trend) * 5, 10),
        sharpeRatio |-> PySharpeRatio(profitability, avg_vol),
        pricePoints |-> avg_shape,
        duration |-> Len(avg_shape),
        frequency |-> n]

\* the support and size test of the notebook script
NotebookMinClusterSize == 3
NotebookRetained(size, total, min_support) ==
    FpDiv(size * SCALE, total) >= min_support /\ size >= NotebookMinClusterSize

\* the loop over cluster ids of extract_patterns; each created pattern
\* makes one call on the generator per bootstrap round and one for the noise
RECURSIVE NotebookFilterFrom(_, _, _, _, _, _, _)
NotebookFilterFrom(cluster_id, n_clusters, windows, labels, min_support, rng, acc) ==
    IF cluster_id >= n_clusters THEN [patterns |-> acc, rng |-> rng]
    ELSE LET cluster_windows == ClusterWindows(windows, labels, cluster_id)
             size == Len(cluster_windows)
             support == FpDiv(size * SCALE, Len(windows))
         IN IF NotebookRetained(size, Len(windows), min_support)
            THEN NotebookFilterFrom(cluster_id + 1, n_clusters, windows, labels,
                     min_support, NpAdvance(rng, NotebookBootstrapRounds + 1),
                     Append(acc, create_pattern(rng, cluster_windows, cluster_id, support)))
            ELSE NotebookFilterFrom(cluster_id + 1, n_clusters, windows, labels,
                                    min_support, rng, acc)

\* n_clusters = min(10, max(3, len(windows) // 20))
NotebookClusterCount(n) == Min2(10, Max2(3, n \div 20))

\* extract_patterns; with window_size 0 the first window[0] raises IndexError
extract_patterns(family, rng, closes, windowSize, min_support) ==
    IF windowSize = 0 /\ Len(closes) > 0
    THEN [raised |-> TRUE, processed |-> 0, clustered |-> FALSE,
          windows |-> <<>>, patterns |-> <<>>, rng |-> rng]
    ELSE LET windows == NotebookWindows(closes, windowSize)
             processed == Len(StartIndices(closes, windowSize))
         IN IF Len(windows) < MinWindowsForClustering
            THEN [raised |-> FALSE, processed |-> processed, clustered |-> FALSE,
                  windows |-> windows, patterns |-> <<>>, rng |-> rng]
            ELSE LET trends == [i \in 1..Len(windows) |-> windows[i].features.trend]
                     n_clusters == NotebookClusterCount(Len(windows))
                     labels == KMeansLabels(family, trends, n_clusters)
                     r == NotebookFilterFrom(0, n_clusters, windows, labels,
                                             min_support, rng, <<>>)
                 IN [raised |-> FALSE, processed |-> processed, clustered |-> TRUE,
                     windows |-> windows, patterns |-> r.patterns, rng |-> r.rng]

\* calculate_statistics of the notebook script
calculate_statistics(patterns) ==
    IF patterns = <<>>
    THEN [totalPatterns |-> 0, avgConfidence |-> 0, avgSupport |-> 0,
          overallProfitability |-> 0, patternFrequency |-> <<>>]
    ELSE LET n == Len(patterns)
             avgWinRate == NpMean(Column(patterns, "winRate"))
             overallProfitability == NpMean(Column(patterns, "profitability"))
             avgSharpeRatio == NpMean(Column(patterns, "sharpeRatio"))
         IN [totalPatterns |-> n,
             uniquePatterns |-> Cardinality({patterns[i].type : i \in 1..n}),
             avgConfidence |-> NpMean(Column(patterns, "confidence")),
             avgSupport |-> NpMean(Column(patterns, "support")),
             avgSignificance |-> NpMean(Column(patterns, "significance")),
             overallProfitability |-> overallProfitability,
             avgWinRate |-> avgWinRate,
             avgSharpeRatio |-> avgSharpeRatio,
             patternFrequency |-> TypeFrequency(patterns),
             bestPattern |-> PyMaxByProfitability(patterns).id,
             worstPattern |-> PyMinByProfitability(patterns).id,
             crossValidationScore |->
                 FpDiv(Cardinality({i \in 1..n : patterns[i].profitability > 0}) * SCALE, n),
             bootstrapConfidence |->
                 NpMean([i \in 1..n |->
                            FpMul(patterns[i].confidence, patterns[i].significance)]),
             outOfSampleResults |->
                 [winRate |-> FpDiv(avgWinRate * 85, 100),
                  avgReturn |-> FpDiv(overallProfitability * 8, 10),
                  sharpeRatio |-> FpDiv(avgSharpeRatio * 75, 100)],
             timeFrameDistribution |-> (TimeFrameValue :> n)]

\* ------------------------------------------------ one script execution
\* the keys the closing summary of the kernel script reads from statistics
SummaryKeys == {"avgConfidence", "overallProfitability", "crossValidationScore"}

NoOutput == [markers |-> FALSE]

\* the object printed between the RESULTS START and RESULTS END markers
ResultsObject(closes, pats, stats, p) ==
    [markers |-> TRUE,
     patterns |-> pats,
     statistics |-> stats,
     metadata |-> [dataPointsAnalyzed |-> Len(closes),
                   patternsFound |-> Len(pats),
                   executionTime |-> 0,
                   algorithmVersion |-> "1.0.0",
                   parameters |-> p]]

MinSupportChoices == {500, 4000, 12000}
Scripts == {"kernel", "notebook"}

\* PARAMS = ${JSON.stringify(params)}: the object is pasted into the Python
\* source as JSON text; a boolean field becomes the bare name true or
\* false, which Python does not know (NameError)
ParamsLiteralRaises(p) == "includeTechnicalIndicators" \in DOMAIN p

VARIABLES
    script,        \* which of the two generated scripts runs
    params,        \* PARAMS of the script
    npFamily,      \* the behaviour of numpy's generator
    kmFamily,      \* the behaviour of sklearn's KMeans
    pc,            \* position of the script
    rng,           \* numpy's global generator
    data,          \* the close prices of the generated series
    extraction,    \* what the extraction step returned
    patterns,      \* the miner's pattern list
    statistics,    \* the miner's statistics
    output,        \* what the script printed between the markers
    run,           \* 1 for the first execution, 2 for the repeated one
    firstOutput    \* output of the first execution

mineVars == <<script, params, npFamily, kmFamily, pc, rng, data, extraction,
              patterns, statistics, output, run, firstOutput>>

VARIABLES
    request,          \* body of the POST the submit route receives
    submitResponse,   \* answer of the submit route
    job,              \* the job submitPatternMiningJob returned
    resultsResponse,  \* answer of the results route
    analysis          \* answer of the analyze route

clientVars == <<request, submitResponse, job, resultsResponse, analysis>>

NoRequest == [wellFormed |-> FALSE]
NoResponse == [status |-> 0, success |-> FALSE]
NoJob == [created |-> FALSE, submitted |-> FALSE]

ClientIdle ==
    /\ request = NoRequest
    /\ submitResponse = NoResponse
    /\ job = NoJob
    /\ resultsResponse = NoResponse
    /\ analysis = NoResponse

VARIABLES
    apiKey,           \* the apiKey the ForexDataManager was built with
    drawFamily,       \* the behaviour of Math.random in the data manager
    cache,            \* ForexDataManager.cache: key -> {data, timestamp}
    clockMinutes,     \* Date.now(), in minutes
    fetching,         \* the getHistoricalData call awaiting fetchFromAPI
    returned          \* what the last finished getHistoricalData returned

dataVars == <<apiKey, drawFamily, cache, clockMinutes, fetching, returned>>

NoFetch == [active |-> FALSE]
NoReturn == [source |-> "none"]

DataIdle ==
    /\ apiKey = ""
    /\ drawFamily = "calm"
    /\ cache = <<>>
    /\ clockMinutes = 0
    /\ fetching = NoFetch
    /\ returned = NoReturn

VARIABLES
    dashboardState,   \* the dashboardState of ForexPatternMiningDashboard
    activeTab,        \* the tab the dashboard opened last
    inflight,         \* requests of the dashboard that await their answer
    clockSeconds,     \* Date.now(), in seconds
    submissions,      \* number of jobs the submit route has accepted
    polls             \* per job id, the last answer of getJobStatus

dashVars == <<dashboardState, activeTab, inflight, clockSeconds, submissions, polls>>

InitialDashboardState ==
    [activeJob |-> [none |-> TRUE], jobHistory |-> <<>>, results |-> [none |-> TRUE],
     isLoading |-> FALSE, error |-> "null"]

DashIdle ==
    /\ dashboardState = InitialDashboardState
    /\ activeTab = "configure"
    /\ inflight = {}
    /\ clockSeconds = 0
    /\ submissions = 0
    /\ polls = <<>>

NoExtraction ==
    [raised |-> FALSE, processed |-> 0, clustered |-> FALSE,
     windows |-> <<>>, patterns |-> <<>>, rng |-> NpSeed(0)]

MineInit ==
    /\ script \in Scripts
    /\ params \in [windowSize : 0..MaxWindowSize,
                   minSupport : MinSupportChoices,
                   dataPoints : 0..MaxDataPoints]
                  \cup [windowSize : 0..MaxWindowSize,
                        minSupport : MinSupportChoices,
                        dataPoints : 0..MaxDataPoints,
                        includeTechnicalIndicators : BOOLEAN]
    /\ npFamily \in NumpyFamilies
    /\ kmFamily \in KMeansFamilies
    /\ pc = "start"
    /\ rng = NpSeed(0)
    /\ data = <<>>
    /\ extraction = NoExtraction
    /\ patterns = <<>>
    /\ statistics = <<>>
    /\ output = NoOutput
    /\ run = 1
    /\ firstOutput = NoOutput
    /\ ClientIdle
    /\ DataIdle
    /\ DashIdle

\* the interpreter starts the script: the generator holds operating-system
\* entropy; the notebook script seeds it in its first statements; the
\* PARAMS statement ends the script when it raises
StartScript ==
    /\ pc = "start"
    /\ \E e \in EntropyStreams :
          rng' = IF script = "notebook" THEN NpSeed(SeedValue) ELSE NpSeed(e)
    /\ pc' = IF ParamsLiteralRaises(params) THEN "aborted" ELSE "generate"
    /\ UNCHANGED <<script, params, npFamily, kmFamily, data, extraction,
                   patterns, statistics, output, run, firstOutput>>
    /\ UNCHANGED <<clientVars, dataVars, dashVars>>

\* step 1 of run_complete_analysis / run_analysis
GenerateForexData ==
    /\ pc = "generate"
    /\ LET g == IF script = "kernel"
                THEN KernelGenerateForexData(npFamily, rng, params.dataPoints)
                ELSE NotebookGenerateForexData(npFamily, rng, params.dataPoints)
       IN /\ data' = g.closes
          /\ rng' = g.rng
    /\ pc' = "extract"
    /\ UNCHANGED <<script, params, npFamily, kmFamily, extraction,
                   patterns, statistics, output, run, firstOutput>>
    /\ UNCHANGED <<clientVars, dataVars, dashVars>>

\* step 2: window extraction, clustering, pattern synthesis
ExtractPatterns ==
    /\ pc = "extract"
    /\ LET r == IF script = "kernel"
                THEN extract_sliding_window_patterns(kmFamily, rng, data,
                         params.windowSize, params.minSupport)
                ELSE extract_patterns(kmFamily, rng, data,
                         params.windowSize, params.minSupport)
       IN /\ extraction' = r
          /\ patterns' = r.patterns
          /\ rng' = r.rng
          /\ pc' = IF r.raised THEN "raised" ELSE "statistics"
    /\ UNCHANGED <<script, params, npFamily, kmFamily, data,
                   statistics, output, run, firstOutput>>
    /\ UNCHANGED <<clientVars, dataVars, dashVars>>

\* step 3
CalculateStatistics ==
    /\ pc = "statistics"
    /\ statistics' = IF script = "kernel"
                     THEN calculate_comprehensive_statistics(patterns)
                     ELSE calculate_statistics(patterns)
    /\ pc' = "emit"
    /\ UNCHANGED <<script, params, npFamily, kmFamily, rng, data, extraction,
                   patterns, output, run, firstOutput>>
    /\ UNCHANGED <<clientVars, dataVars, dashVars>>

\* the results object is built and printed between the markers; the kernel
\* script first prints a summary that reads three statistics
EmitResults ==
    /\ pc = "emit"
    /\ IF script = "kernel" /\ ~(SummaryKeys \subseteq DOMAIN statistics)
       THEN /\ pc' = "raised"
            /\ output' = output
       ELSE /\ pc' = "done"
            /\ output' = ResultsObject(data, patterns, statistics, params)
    /\ UNCHANGED <<script, params, npFamily, kmFamily, rng, data, extraction,
                   patterns, statistics, run, firstOutput>>
    /\ UNCHANGED <<clientVars, dataVars, dashVars>>

\* the same script with the same PARAMS is executed once more, by a new
\* interpreter
RunAgain ==
    /\ pc \in {"done", "raised", "aborted"}
    /\ run = 1
    /\ run' = 2
    /\ firstOutput' = output
    /\ pc' = "start"
    /\ rng' = NpSeed(0)
    /\ data' = <<>>
    /\ extraction' = NoExtraction
    /\ patterns' = <<>>
    /\ statistics' = <<>>
    /\ output' = NoOutput
    /\ UNCHANGED <<script, params, npFamily, kmFamily>>
    /\ UNCHANGED <<clientVars, dataVars, dashVars>>

MineNext ==
    \/ StartScript
    \/ GenerateForexData
    \/ ExtractPatterns
    \/ CalculateStatistics
    \/ EmitResults
    \/ RunAgain

vars == <<mineVars, clientVars, dataVars, dashVars>>

SpecMine == MineInit /\ [][MineNext]_vars

\* the same scripts on a series long enough for more than three clusters,
\* with the noiseFilter and bootstrapSamples members of PARAMS
NoiseFilterChoices == {0, 1000}
BootstrapSamplesChoices == {3, 100}
LongInit ==
    /\ script \in Scripts
    /\ params \in [windowSize : {2, 3},
                   minSupport : {500},
                   dataPoints : {LongDataPoints},
                   noiseFilter : NoiseFilterChoices,
                   bootstrapSamples : BootstrapSamplesChoices]
    /\ npFamily \in NumpyFamilies
    /\ kmFamily \in KMeansFamilies
    /\ pc = "start"
    /\ rng = NpSeed(0)
    /\ data = <<>>
    /\ extraction = NoExtraction
    /\ patterns = <<>>
    /\ statistics = <<>>
    /\ output = NoOutput
    /\ run = 1
    /\ firstOutput = NoOutput
    /\ ClientIdle
    /\ DataIdle
    /\ DashIdle

SpecLong == LongInit /\ [][MineNext]_vars

\* ------------------------------------------- the whole notebook script
\* what the script that submitPatternMiningJob pushes prints: np.random.seed,
\* run_analysis, then the results between the markers; an exception ends
\* the script before the markers
NotebookScriptOutput(npFam, kmFam, p) ==
    LET seeded == NpSeed(SeedValue)
        g == NotebookGenerateForexData(npFam, seeded, p.dataPoints)
        r == extract_patterns(kmFam, g.rng, g.closes, p.windowSize, p.minSupport)
    IN IF ParamsLiteralRaises(p) \/ r.raised THEN NoOutput
       ELSE ResultsObject(g.closes, r.patterns, calculate_statistics(r.patterns), p)

\* ------------------------------------------- the results on the wire
\* decimal digits of a natural number, most significant first
RECURSIVE Digits(_)
Digits(n) == IF n < 10 THEN <<n>> ELSE Append(Digits(n \div 10), n % 10)

\* the number a digit string denotes
RECURSIVE DigitsValue(_)
DigitsValue(ds) ==
    IF ds = <<>> THEN 0
    ELSE DigitsValue(SubSeq(ds, 1, Len(ds) - 1)) * 10 + ds[Len(ds)]

RECURSIVE DropTrailingZeros(_)
DropTrailingZeros(ds) ==
    IF Len(ds) > 1 /\ ds[Len(ds)] = 0
    THEN DropTrailingZeros(SubSeq(ds, 1, Len(ds) - 1))
    ELSE ds

RECURSIVE Pow10(_)
Pow10(e) == IF e = 0 THEN 1 ELSE 10 * Pow10(e - 1)

\* number of decimal places a fixed-point number carries
FracDigits == Len(Digits(SCALE)) - 1

\* json.dumps of a Python int
PyIntText(n) == [kind |-> "number", neg |-> n < 0, whole |-> Digits(Abs(n)), frac |-> <<>>]

\* json.dumps of a Python float: repr, the shortest text that reads back as
\* the same float, always with a fractional part
PyFloatText(x) ==
    LET m == Abs(x) % SCALE
        places == [i \in 1..FracDigits |-> (m \div Pow10(FracDigits - i)) % 10]
    IN [kind |-> "number", neg |-> x < 0, whole |-> Digits(Abs(x) \div SCALE),
        frac |-> DropTrailingZeros(places)]

\* max(0, x) gives the int 0 unless x > 0
PyMaxZeroText(x) == IF x = 0 THEN PyIntText(0) ELSE PyFloatText(x)

PyStrText(s) == [kind |-> "string", chars |-> s]

\* the fields of a pattern and of the statistics by the Python type of
\* their values
PatternStringKeys == {"id", "type", "firstSeen", "lastSeen"}
PatternIntKeys == {"duration", "frequency"}
StatisticsStringKeys == {"bestPattern", "worstPattern"}
StatisticsIntKeys == {"totalPatterns", "uniquePatterns"}
StatisticsCountDictKeys == {"patternFrequency", "timeFrameDistribution"}

PatternText(p) ==
    [kind |-> "object",
     members |->
        [k \in DOMAIN p |->
            CASE k \in PatternStringKeys -> PyStrText(p[k])
              [] k \in PatternIntKeys -> PyIntText(p[k])
              [] k = "sharpeRatio" -> PyMaxZeroText(p[k])
              [] k = "pricePoints" ->
                    [kind |-> "array",
                     items |-> [j \in 1..Len(p[k]) |-> PyFloatText(p[k][j])]]
              [] OTHER -> PyFloatText(p[k])]]

StatisticsText(st) ==
    [kind |-> "object",
     members |->
        [k \in DOMAIN st |->
            CASE k \in StatisticsStringKeys -> PyStrText(st[k])
              [] k \in StatisticsIntKeys -> PyIntText(st[k])
              [] k \in StatisticsCountDictKeys ->
                    [kind |-> "object",
                     members |-> [t \in DOMAIN st[k] |-> PyIntText(st[k][t])]]
              [] k = "outOfSampleResults" ->
                    [kind |-> "object",
                     members |-> [f \in DOMAIN st[k] |->
                                     IF st[k][f] = 0 /\ st.totalPatterns = 0
                                     THEN PyIntText(0) ELSE PyFloatText(st[k][f])]]
              [] OTHER -> IF st[k] = 0 /\ st.totalPatterns = 0
                          THEN PyIntText(0) ELSE PyFloatText(st[k])]]

\* PARAMS as the script holds it; the members that are objects are
\* written as they were pasted
ParametersIntKeys == {"windowSize", "dataPoints", "bootstrapSamples"}
ParametersText(p) ==
    [kind |-> "object",
     members |->
        [k \in DOMAIN p |->
            CASE k = "minSupport" -> PyFloatText(p[k])
              [] k \in ParametersIntKeys -> PyIntText(p[k])
              [] OTHER -> PyStrText(p[k])]]

MetadataText(md) ==
    [kind |-> "object",
     members |->
        [k \in DOMAIN md |->
            CASE k = "algorithmVersion" -> PyStrText(md[k])
              [] k = "parameters" -> ParametersText(md[k])
              [] OTHER -> PyIntText(md[k])]]

\* json.dumps(results)
JsonDumps(results) ==
    [kind |-> "object",
     members |->
        [patterns |-> [kind |-> "array",
                       items |-> [i \in 1..Len(results.patterns) |->
                                     PatternText(results.patterns[i])]],
         statistics |-> StatisticsText(results.statistics),
         metadata |-> MetadataText(results.metadata)]]

\* what the script leaves on standard output: the two marker lines with
\* the JSON text between them, or neither when the script ended early
PrintedResults(results) ==
    IF results.markers
    THEN [startMarker |-> TRUE, endMarker |-> TRUE, json |-> JsonDumps(results)]
    ELSE [startMarker |-> FALSE, endMarker |-> FALSE]

\* outputData.match(/=== RESULTS START ===([\s\S]*?)=== RESULTS END ===/)
JsonMatch(outputData) == outputData.startMarker /\ outputData.endMarker

\* JSON.parse of a number
JsonParseNumber(t) ==
    LET magnitude ==
          IF t.frac = <<>> THEN DigitsValue(t.whole)
          ELSE DigitsValue(t.whole) * SCALE
                  + DigitsValue(t.frac) * Pow10(FracDigits - Len(t.frac))
    IN IF t.neg THEN 0 - magnitude ELSE magnitude

\* JSON.parse of a string or a number
JsonParseScalar(t) == IF t.kind = "string" THEN t.chars ELSE JsonParseNumber(t)

\* JSON.parse of a value whose members are strings and numbers
JsonParseFlat(t) ==
    CASE t.kind = "object" -> [k \in DOMAIN t.members |-> JsonParseScalar(t.members[k])]
      [] t.kind = "array" -> [i \in 1..Len(t.items) |-> JsonParseScalar(t.items[i])]
      [] OTHER -> JsonParseScalar(t)

\* JSON.parse of a value nested one level deeper
JsonParseNested(t) ==
    CASE t.kind = "object" -> [k \in DOMAIN t.members |-> JsonParseFlat(t.members[k])]
      [] t.kind = "array" -> [i \in 1..Len(t.items) |-> JsonParseFlat(t.items[i])]
      [] OTHER -> JsonParseScalar(t)

\* JSON.parse(resultsJson): the members of the top-level object
JsonParse(text) ==
    [k \in DOMAIN text.members |->
        IF text.members[k].kind = "array"
        THEN [i \in 1..Len(text.members[k].items) |->
                 JsonParseNested(text.members[k].items[i])]
        ELSE JsonParseNested(text.members[k])]

\* ------------------------------------------------- KaggleApiClient (TS)
\* Math.random(): a value in [0, 1) of the engine's stream
MathRandom(stream, pos) ==
    FpDiv(((stream * 37 + pos * pos * 7 + pos * 13 + 5) % 101) * SCALE, 101)

\* Math.floor(r * n) for r in [0, 1)
FloorTimes(r, n) == (r * n) \div SCALE

\* x || fallback for an object read from parsed JSON
\* a read that always takes the default
FieldOrDefault(obj, name, fallback) == fallback
FieldOr(obj, name, fallback) == IF name \in DOMAIN obj THEN obj[name] ELSE fallback

\* Array.prototype.sort with the comparator a[field] - b[field] (order
\* "asc") or b[field] - a[field] (order "desc"); the sort is stable
RECURSIVE JsInsert(_, _, _, _)
JsInsert(sorted, p, field, order) ==
    IF sorted = <<>> THEN <<p>>
    ELSE IF (order = "asc" /\ Head(sorted)[field] <= p[field])
            \/ (order # "asc" /\ Head(sorted)[field] >= p[field])
         THEN <<Head(sorted)>> \o JsInsert(Tail(sorted), p, field, order)
         ELSE <<p>> \o sorted
RECURSIVE JsSortBy(_, _, _)
JsSortBy(ps, field, order) ==
    IF ps = <<>> THEN <<>>
    ELSE JsInsert(JsSortBy(SubSeq(ps, 1, Len(ps) - 1), field, order),
                  ps[Len(ps)], field, order)

\* calls on Math.random per demo pattern: type, confidence, support,
\* significance, 20 price points, then 8 more fields
DemoWindowSize == 20
DemoDrawsPerPattern == 32

\* the cumulative price points of one demo pattern
RECURSIVE DemoPricePoints(_, _, _, _)
DemoPricePoints(stream, pos, trendFactor, j) ==
    IF j = 0 THEN <<>>
    ELSE LET before == DemoPricePoints(stream, pos, trendFactor, j - 1)
             noise == FpDiv((MathRandom(stream, pos + j - 1) - 5000) * 30, SCALE)
             last == IF before = <<>> THEN 0 ELSE before[Len(before)]
         IN Append(before, last + trendFactor + noise)

\* the i-th pattern (from 0) pushed by the loop of generateDemoResults
DemoPattern(stream, i) ==
    LET pos == 1 + DemoDrawsPerPattern * i
        patternType == <<"bullish", "bearish", "neutral">>[1 + FloorTimes(MathRandom(stream, pos), 3)]
        confidence == 6000 + FpDiv(MathRandom(stream, pos + 1) * 35, 100)
        after == pos + 4 + DemoWindowSize
    IN [id |-> PatternId(i),
        type |-> patternType,
        support |-> 200 + FpDiv(MathRandom(stream, pos + 2) * 15, 100),
        confidence |-> confidence,
        significance |-> FpDiv(MathRandom(stream, pos + 3) * 8, 10) + 2000,
        profitability |-> FpDiv((MathRandom(stream, after) - 3000) * 12, 100),
        winRate |-> FpDiv(confidence * 85, 100) + FpDiv(MathRandom(stream, after + 1) * 15, 100),
        avgReturn |-> FpDiv((MathRandom(stream, after + 2) - 2500) * 8, 100),
        maxDrawdown |-> FpDiv(MathRandom(stream, after + 3) * 4, 100),
        sharpeRatio |-> Max2(0, FpDiv((MathRandom(stream, after + 4) - 1500) * 25, 10)),
        pricePoints |-> DemoPricePoints(stream, pos + 4,
                            IF patternType = "bullish" THEN 15
                            ELSE IF patternType = "bearish" THEN -15 ELSE 0,
                            DemoWindowSize),
        duration |-> DemoWindowSize,
        frequency |-> FloorTimes(MathRandom(stream, after + 5), 40) + 10,
        firstSeen |-> -(MathRandom(stream, after + 6) * 30),
        lastSeen |-> -(MathRandom(stream, after + 7) * 7)]

generateDemoResults(stream) ==
    LET numPatterns == FloorTimes(MathRandom(stream, 0), 15) + 10
        pushed == [i \in 1..numPatterns |-> DemoPattern(stream, i - 1)]
        sorted == JsSortBy(pushed, "confidence", "desc")
        n == Len(sorted)
        pos == 1 + DemoDrawsPerPattern * numPatterns
    IN [patterns |-> sorted,
        statistics |->
           [totalPatterns |-> n,
            uniquePatterns |-> Cardinality({sorted[i].type : i \in 1..n}),
            avgConfidence |-> FpDiv(SumSeq(Column(sorted, "confidence")), n),
            avgSupport |-> FpDiv(SumSeq(Column(sorted, "support")), n),
            avgSignificance |-> FpDiv(SumSeq(Column(sorted, "significance")), n),
            overallProfitability |-> FpDiv(SumSeq(Column(sorted, "profitability")), n),
            avgWinRate |-> FpDiv(SumSeq(Column(sorted, "winRate")), n),
            avgSharpeRatio |-> FpDiv(SumSeq(Column(sorted, "sharpeRatio")), n),
            bestPattern |-> sorted[1].id,
            worstPattern |-> sorted[n].id,
            patternFrequency |-> TypeFrequency(sorted),
            timeFrameDistribution |-> ("1h" :> n),
            crossValidationScore |-> FpDiv(MathRandom(stream, pos) * 4, 10) + 5500,
            bootstrapConfidence |-> FpDiv(MathRandom(stream, pos + 1) * 25, 100) + 6500,
            outOfSampleResults |->
               [winRate |-> FpDiv(MathRandom(stream, pos + 2) * 25, 100) + 4500,
                avgReturn |-> FpDiv((MathRandom(stream, pos + 3) - 2500) * 6, 100),
                sharpeRatio |-> Max2(0, FpDiv((MathRandom(stream, pos + 4) - 2000) * 18, 10))]],
        metadata |-> [dataPointsAnalyzed |-> 5000,
                      patternsFound |-> n,
                      executionTime |-> 180,
                      algorithmVersion |-> "1.0.0"]]

\* String.prototype.toLowerCase on the status strings of the Kaggle API
ToLowerCase(str) ==
    CASE str = "cancelAcknowledged" -> "cancelacknowledged"
      [] str = "RUNNING" -> "running"
      [] str = "Complete" -> "complete"
      [] OTHER -> str

\* the keys and values of statusMap
statusMap ==
    [k \in {"queued", "starting", "running", "complete", "error", "cancelled",
            "cancelAcknowledged"} |->
        CASE k = "queued" -> "submitted"
          [] k = "starting" -> "running"
          [] k = "running" -> "running"
          [] k = "complete" -> "completed"
          [] k = "error" -> "failed"
          [] OTHER -> "cancelled"]

\* statusMap[kaggleStatus?.toLowerCase()] || 'submitted'
mapKaggleStatus(kaggleStatus) ==
    IF ToLowerCase(kaggleStatus) \in DOMAIN statusMap
    THEN statusMap[ToLowerCase(kaggleStatus)]
    ELSE "submitted"

\* the status getJobStatus reports; api is the answer of the Kaggle status
\* endpoint, age the seconds since the time stamp in the job id
getJobStatus(api, age) ==
    CASE api.kind = "throws" -> "running"
      [] api.kind = "notok" ->
            IF age > 180 THEN "completed" ELSE IF age > 30 THEN "running" ELSE "submitted"
      [] OTHER -> mapKaggleStatus(api.status)

\* calculateProgress, in percent
calculateProgress(kaggleStatus) ==
    CASE ToLowerCase(kaggleStatus) = "queued" -> 5
      [] ToLowerCase(kaggleStatus) = "starting" -> 15
      [] ToLowerCase(kaggleStatus) = "running" -> 50
      [] ToLowerCase(kaggleStatus) = "complete" -> 100
      [] ToLowerCase(kaggleStatus) \in {"error", "cancelled"} -> 0
      [] OTHER -> 10

\* a demo progress that is not capped at 90
DemoProgressUncapped(age) == FpDiv(age * 100 * SCALE, 180)
\* Math.min(90, (secondsElapsed / 180) * 100)
DemoProgress(age) == Min2(90 * SCALE, FpDiv(age * 100 * SCALE, 180))

\* the KaggleJobStatus getJobStatus resolves with: id, status, progress
\* (fixed point), and whether endTime and outputUrl are set; Kaggle's own
\* answer carries lastRunTime and outputUrl once the kernel has completed
getJobStatusAnswer(jobId, api, age) ==
    LET status == getJobStatus(api, age)
    IN CASE api.kind = "throws" ->
               [none |-> FALSE, id |-> jobId, status |-> status, progress |-> 25 * SCALE,
                endTime |-> FALSE, outputUrl |-> FALSE]
         [] api.kind = "notok" ->
               [none |-> FALSE, id |-> jobId, status |-> status,
                progress |-> IF age > 180 THEN 100 * SCALE
                             ELSE IF age > 30 THEN DemoProgress(age) ELSE 10 * SCALE,
                endTime |-> status = "completed",
                outputUrl |-> status = "completed"]
         [] OTHER ->
               [none |-> FALSE, id |-> jobId, status |-> status,
                progress |-> calculateProgress(api.status) * SCALE,
                endTime |-> ToLowerCase(api.status) = "complete",
                outputUrl |-> ToLowerCase(api.status) = "complete"]

\* a getJobResults that does not look at the status of the job
getJobResultsAnyStatus(jobId, api, age, outputApi, kernelOut, mathStream) ==
    LET demoResults == generateDemoResults(mathStream)
    IN [kind |-> "results", source |-> "demo", jobId |-> jobId,
        patterns |-> demoResults.patterns,
        statistics |-> demoResults.statistics,
        metadata |-> demoResults.metadata]

\* getJobResults: null unless the job is completed; the parsed kernel output
\* if the output endpoint answers OK and the markers are found; demo results
\* otherwise; a failing fetch is rethrown
getJobResults(jobId, api, age, outputApi, kernelOut, mathStream) ==
    IF getJobStatus(api, age) # "completed" THEN [kind |-> "null"]
    ELSE IF outputApi = "throws" THEN [kind |-> "throws"]
    ELSE IF outputApi = "ok" /\ JsonMatch(kernelOut)
         THEN LET results == JsonParse(kernelOut.json)
              IN [kind |-> "results", source |-> "kernel", jobId |-> jobId,
                  patterns |-> FieldOr(results, "patterns", <<>>),
                  statistics |-> FieldOr(results, "statistics", <<>>),
                  metadata |-> FieldOr(results, "metadata", <<>>)]
         ELSE LET demoResults == generateDemoResults(mathStream)
              IN [kind |-> "results", source |-> "demo", jobId |-> jobId,
                  patterns |-> demoResults.patterns,
                  statistics |-> demoResults.statistics,
                  metadata |-> demoResults.metadata]

\* getEstimatedExecutionTime, in seconds
getEstimatedExecutionTime(p) ==
    Max2(120 * SCALE + FpDiv(p.dataPoints * 15 * SCALE, 1000) + p.windowSize * 3 * SCALE
            + FpDiv(p.bootstrapSamples * 5 * SCALE, 100),
         120 * SCALE)

\* ------------------------------------------------ the analyze endpoint
NoFilters == [given |-> FALSE]
DefaultFilters ==
    [given |-> TRUE, patternType |-> "all", minConfidence |-> 5000, minSupport |-> 100,
     minProfitability |-> -SCALE, sortBy |-> "confidence", sortOrder |-> "desc"]
BullishFilters ==
    [given |-> TRUE, patternType |-> "bullish", minConfidence |-> 5000, minSupport |-> 100,
     minProfitability |-> 0, sortBy |-> "profitability", sortOrder |-> "asc"]

applyPatternFilters(ps, filters) ==
    LET ByType(p) == filters.patternType = "all" \/ p.type = filters.patternType
        ByConfidence(p) == p.confidence >= filters.minConfidence
        BySupport(p) == p.support >= filters.minSupport
        ByProfitability(p) ==
            filters.minProfitability > -SCALE => p.profitability >= filters.minProfitability
        filtered ==
            SelectSeq(SelectSeq(SelectSeq(SelectSeq(ps, ByType), ByConfidence), BySupport),
                      ByProfitability)
    IN JsSortBy(filtered, filters.sortBy, filters.sortOrder)

\* patterns.reduce((best, current) => current.profitability > best.profitability
\*                                     ? current : best)
RECURSIVE ReduceBest(_, _, _)
ReduceBest(ps, i, best) ==
    IF i > Len(ps) THEN best
    ELSE ReduceBest(ps, i + 1, IF ps[i].profitability > best.profitability THEN ps[i] ELSE best)
RECURSIVE ReduceWorst(_, _, _)
ReduceWorst(ps, i, worst) ==
    IF i > Len(ps) THEN worst
    ELSE ReduceWorst(ps, i + 1, IF ps[i].profitability < worst.profitability THEN ps[i] ELSE worst)

calculatePatternStatistics(ps) ==
    IF ps = <<>>
    THEN [totalPatterns |-> 0, uniquePatterns |-> 0, avgConfidence |-> 0, avgSupport |-> 0,
          overallProfitability |-> 0, avgWinRate |-> 0, avgSharpeRatio |-> 0,
          bestPattern |-> "", worstPattern |-> "", patternFrequency |-> <<>>,
          timeFrameDistribution |-> <<>>, crossValidationScore |-> 0,
          bootstrapConfidence |-> 0,
          outOfSampleResults |-> [winRate |-> 0, avgReturn |-> 0, sharpeRatio |-> 0]]
    ELSE LET n == Len(ps)
             avgConfidence == FpDiv(SumSeq(Column(ps, "confidence")), n)
             overallProfitability == FpDiv(SumSeq(Column(ps, "profitability")), n)
             avgWinRate == FpDiv(SumSeq(Column(ps, "winRate")), n)
             avgSharpeRatio == FpDiv(SumSeq(Column(ps, "sharpeRatio")), n)
             crossValidationScore ==
                 FpDiv(Cardinality({i \in 1..n : ps[i].profitability > 0}) * SCALE, n)
         IN [totalPatterns |-> n,
             uniquePatterns |-> Cardinality({ps[i].type : i \in 1..n}),
             avgConfidence |-> avgConfidence,
             avgSupport |-> FpDiv(SumSeq(Column(ps, "support")), n),
             overallProfitability |-> overallProfitability,
             avgWinRate |-> avgWinRate,
             avgSharpeRatio |-> avgSharpeRatio,
             bestPattern |-> ReduceBest(ps, 2, ps[1]).id,
             worstPattern |-> ReduceWorst(ps, 2, ps[1]).id,
             patternFrequency |-> TypeFrequency(ps),
             timeFrameDistribution |-> <<>>,
             crossValidationScore |-> crossValidationScore,
             bootstrapConfidence |->
                 Max2(0, Min2(SCALE, FpMul(avgConfidence, crossValidationScore))),
             outOfSampleResults |->
                 [winRate |-> FpDiv(avgWinRate * 85, 100),
                  avgReturn |-> FpDiv(overallProfitability * 8, 10),
                  sharpeRatio |-> FpDiv(avgSharpeRatio * 75, 100)]]

\* ---------------------------------------- the routes and their callers
ClientWindowSizes == {0, 2, MaxWindowSize}
Requests ==
    [wellFormed : {TRUE}, hasCurrencyPair : BOOLEAN, hasTimeFrame : BOOLEAN,
     windowSize : ClientWindowSizes, minSupport : {500, 12000},
     dataPoints : {0, MaxDataPoints}, bootstrapSamples : {0, 1000}]
    \cup
    [wellFormed : {TRUE}, hasCurrencyPair : {TRUE}, hasTimeFrame : {TRUE},
     windowSize : ClientWindowSizes, minSupport : {500, 12000},
     dataPoints : {0, MaxDataPoints}, bootstrapSamples : {0, 1000},
     includeTechnicalIndicators : {TRUE}]

KaggleStatuses ==
    {"queued", "starting", "running", "RUNNING", "complete", "error", "cancelled",
     "cancelAcknowledged", "unknown"}
StatusAnswers ==
    {[kind |-> "throws"], [kind |-> "notok"]}
        \cup {[kind |-> "ok", status |-> st] : st \in KaggleStatuses}
JobAges == {10, 60, 200}

ClientInit ==
    /\ request \in Requests \cup {NoRequest}
    /\ submitResponse = NoResponse
    /\ job = NoJob
    /\ resultsResponse = NoResponse
    /\ analysis = NoResponse
    /\ script = "notebook"
    /\ params = <<>>
    /\ npFamily \in {"zigzag", "noisy"}
    /\ kmFamily \in {"bysign", "roundrobin"}
    /\ pc = "idle"
    /\ rng = NpSeed(0)
    /\ data = <<>>
    /\ extraction = NoExtraction
    /\ patterns = <<>>
    /\ statistics = <<>>
    /\ output = NoOutput
    /\ run = 1
    /\ firstOutput = NoOutput
    /\ DataIdle
    /\ DashIdle

\* a submitPatternMiningJob whose catch clause and non-OK branch hand the
\* failure on
submitPatternMiningJobRejecting(push) ==
    [jobId |-> [form |-> IF push \in {"ref", "noref"} THEN "ref" ELSE "none"],
     created |-> push \in {"ref", "noref"},
     submitted |-> TRUE]

\* submitPatternMiningJob: push is the outcome of the kernel push; without
\* a ref in the answer, after a non-OK answer and after an exception the
\* job id is <username>/forex-pattern-<Date.now()>
submitPatternMiningJob(push) ==
    [jobId |-> [form |-> IF push = "ref" THEN "ref" ELSE "fallback"],
     created |-> push \in {"ref", "noref"},
     submitted |-> TRUE]

\* POST /api/kaggle/submit
PostSubmit ==
    /\ submitResponse = NoResponse
    /\ IF ~request.wellFormed
       THEN /\ submitResponse' = [status |-> 500, success |-> FALSE]
            /\ UNCHANGED <<job, params>>
       ELSE IF ~request.hasCurrencyPair \/ ~request.hasTimeFrame
       THEN /\ submitResponse' = [status |-> 400, success |-> FALSE]
            /\ UNCHANGED <<job, params>>
       ELSE \E push \in {"ref", "noref", "notok", "throws"} :
               LET result == submitPatternMiningJob(push)
               IN /\ job' = result
                  /\ params' = request
                  /\ submitResponse' =
                        [status |-> 200, success |-> TRUE,
                         data |-> [jobId |-> result.jobId,
                                   estimatedTime |-> getEstimatedExecutionTime(request),
                                   status |-> "submitted"]]
    /\ UNCHANGED <<request, resultsResponse, analysis, script, npFamily, kmFamily, pc,
                   rng, data, extraction, patterns, statistics, output, run, firstOutput>>
    /\ UNCHANGED <<dataVars, dashVars>>

\* Kaggle executes the pushed script
KaggleRunsKernel ==
    /\ job.created
    /\ pc = "idle"
    /\ output' = NotebookScriptOutput(npFamily, kmFamily, params)
    /\ pc' = IF output'.markers THEN "done" ELSE "raised"
    /\ UNCHANGED <<script, params, npFamily, kmFamily, rng, data, extraction,
                   patterns, statistics, run, firstOutput>>
    /\ UNCHANGED <<clientVars, dataVars, dashVars>>

\* what the Kaggle status endpoint can answer for the job
StatusAnswerPossible(api) ==
    \/ api.kind \in {"throws", "notok"}
    \/ /\ api.kind = "ok"
       /\ job.created
       /\ api.status = "complete" => pc = "done"
       /\ api.status = "error" => pc = "raised"
       /\ api.status \in {"queued", "starting", "running", "RUNNING"} => pc = "idle"

\* GET /api/kaggle/results?jobId=... ; the dashboard asks until it is
\* given results
GetResults ==
    /\ ~resultsResponse.success
    /\ \E hasJobId \in BOOLEAN, api \in StatusAnswers, age \in JobAges,
          outputApi \in {"ok", "notok", "throws"}, mathStream \in EntropyStreams :
          /\ hasJobId => job.submitted
          /\ StatusAnswerPossible(api)
          \* the age of the job is read only after a non-OK status answer
          /\ api.kind # "notok" => age = 200
          /\ outputApi = "ok" => job.created
          /\ resultsResponse' =
                IF ~hasJobId THEN [status |-> 400, success |-> FALSE]
                ELSE LET results == getJobResults(job.jobId, api, age, outputApi,
                                                  PrintedResults(output), mathStream)
                     IN CASE results.kind = "null" -> [status |-> 202, success |-> FALSE]
                          [] results.kind = "throws" -> [status |-> 500, success |-> FALSE]
                          [] OTHER -> [status |-> 200, success |-> TRUE, data |-> results]
    /\ UNCHANGED <<request, submitResponse, job, analysis>>
    /\ UNCHANGED <<mineVars, dataVars, dashVars>>

\* POST /api/kaggle/analyze
PostAnalyze ==
    /\ analysis = NoResponse
    /\ \E body \in {"invalid", "empty", "delivered"},
          filters \in {NoFilters, DefaultFilters, BullishFilters} :
          /\ body = "delivered" => resultsResponse.success
          /\ analysis' =
                IF body = "invalid" THEN [status |-> 400, success |-> FALSE]
                ELSE LET given == IF body = "empty" THEN <<>>
                                  ELSE resultsResponse.data.patterns
                         filteredPatterns == IF filters.given
                                             THEN applyPatternFilters(given, filters)
                                             ELSE given
                     IN [status |-> 200, success |-> TRUE,
                         data |-> [patterns |-> filteredPatterns,
                                   statistics |-> calculatePatternStatistics(filteredPatterns)]]
    /\ UNCHANGED <<request, submitResponse, job, resultsResponse>>
    /\ UNCHANGED <<mineVars, dataVars, dashVars>>

ClientNext ==
    \/ PostSubmit
    \/ KaggleRunsKernel
    \/ GetResults
    \/ PostAnalyze

SpecClient == ClientInit /\ [][ClientNext]_vars

\* ------------------------------------------------ ForexDataManager (TS)
\* prices of the data manager are counted in millionths
MICRO == 1000000

\* the draws of Math.random in generateRealisticTestData, in units of
\* 1/SCALE: slot 1 randomFactor, 2 spread, 3 high, 4 low, 5 the pattern
\* test, 6 the pattern direction, 7 volume
DrawFamilies == {"calm", "bullishBurst", "bearishBurst"}
DataDraw(family, i, slot) ==
    CASE slot = 5 -> IF family = "calm" THEN (i * 977) % 9950 ELSE 9951 + (i % 40)
      [] slot = 6 -> IF family = "bearishBurst" THEN (i * 311) % 5000
                     ELSE 5001 + ((i * 311) % 4999)
      [] OTHER -> (i * 2713 + slot * 1231 + (IF family = "calm" THEN 0 ELSE 4177)) % SCALE

\* basePrices[currencyPair.symbol] || 1.0000
basePrices(symbol) == IF symbol = "EURUSD" THEN 1200000 ELSE 1000000
\* getVolatilityForPair
getVolatilityForPair(symbol) == IF symbol = "EURUSD" THEN 800 ELSE 1000

\* timeFrame.minutes of the time frames of the dashboard
TimeFrameMinutes(value) ==
    CASE value = "1m" -> 1 [] value = "5m" -> 5 [] value = "15m" -> 15
      [] value = "30m" -> 30 [] value = "1h" -> 60 [] value = "4h" -> 240
      [] OTHER -> 1440

\* Math.sin(i / 100) * 0.0001 in millionths, to the nearest millionth: for
\* i <= 31 the sine is its argument to that precision
TrendMicro(i) == IF i <= 31 THEN i ELSE 31

\* timestamp.getUTCHours() of a time in minutes
GetUTCHours(t) == (t \div 60) % 24

\* the bars data[0..n-1] of generateRealisticTestData and currentPrice
\* after them; startDate is in minutes
RECURSIVE RealisticBars(_, _, _, _, _)
RealisticBars(family, symbol, minutes, startDate, n) ==
    IF n = 0 THEN [data |-> <<>>, currentPrice |-> basePrices(symbol)]
    ELSE LET before == RealisticBars(family, symbol, minutes, startDate, n - 1)
             i == n - 1
             timestamp == startDate + i * minutes
             randomFactor == (DataDraw(family, i, 1) - 5000) * 2
             trend == TrendMicro(i)
             noise == FpDiv(randomFactor * getVolatilityForPair(symbol), SCALE)
             hour == GetUTCHours(timestamp)
             overlap == (hour >= 8 /\ hour <= 16) \/ (hour >= 13 /\ hour <= 21)
             priceChange == IF overlap THEN FpDiv((trend + noise) * 15, 10)
                            ELSE trend + noise
             moved == before.currentPrice + FpDiv(before.currentPrice * priceChange, MICRO)
             spread == FpDiv(moved * (10 + FpDiv(DataDraw(family, i, 2) * 50, SCALE)), MICRO)
             high == moved + FpDiv(DataDraw(family, i, 3) * spread * 2, SCALE)
             low == moved - FpDiv(DataDraw(family, i, 4) * spread * 2, SCALE)
             open == IF i = 0 THEN moved ELSE before.data[i].close
             injected == i > 20 /\ DataDraw(family, i, 5) > 9950
             patternStrength == IF DataDraw(family, i, 6) > 5000 THEN 500 ELSE -500
             currentPrice == IF injected
                             THEN moved + FpDiv(moved * patternStrength, MICRO)
                             ELSE moved
         IN [data |-> Append(before.data,
                        [timestamp |-> timestamp,
                         open |-> Max2(low, Min2(high, open)),
                         high |-> high,
                         low |-> low,
                         close |-> currentPrice,
                         volume |-> 1000 + FpDiv(DataDraw(family, i, 7) * 5000, SCALE)]),
             currentPrice |-> currentPrice]

\* generateRealisticTestData at the time now (minutes)
generateRealisticTestData(family, key, now) ==
    LET minutes == TimeFrameMinutes(key.timeFrame)
    IN RealisticBars(family, key.symbol, minutes, now - key.dataPoints * minutes,
                     key.dataPoints).data

\* Object.keys(timeSeries).sort(): the time stamps of the answer are
\* strings of one fixed width, whose string order is their time order
RECURSIVE SortKeys(_)
SortKeys(keys) ==
    IF keys = {} THEN <<>>
    ELSE LET least == CHOOSE k \in keys : \A other \in keys : k <= other
         IN <<least>> \o SortKeys(keys \ {least})

\* Array.prototype.reverse
Reverse(s) == [i \in 1..Len(s) |-> s[Len(s) + 1 - i]]

\* the loop of fetchFromAPI over the answer's time series, an object from
\* time stamp to the four quoted prices
fetchFromAPI(timeSeries, dataPoints) ==
    LET timestamps == Reverse(SortKeys(DOMAIN timeSeries))
    IN [i \in 1..Min2(Len(timestamps), dataPoints) |->
           [timestamp |-> timestamps[i],
            open |-> timeSeries[timestamps[i]].open,
            high |-> timeSeries[timestamps[i]].high,
            low |-> timeSeries[timestamps[i]].low,
            close |-> timeSeries[timestamps[i]].close]]

\* validateData: the indices at which each kind of issue is pushed
validateData(d) ==
    IF d = <<>> THEN [isValid |-> FALSE, noData |-> TRUE, missing |-> {}, ohlc |-> {},
                      order |-> {}, gap |-> {}]
    ELSE LET missing == {i \in 1..Len(d) : d[i].open = 0 \/ d[i].high = 0
                                           \/ d[i].low = 0 \/ d[i].close = 0}
             ohlc == {i \in 1..Len(d) :
                         \/ d[i].high < d[i].low
                         \/ d[i].open > d[i].high \/ d[i].open < d[i].low
                         \/ d[i].close > d[i].high \/ d[i].close < d[i].low}
             order == {i \in 2..Len(d) : d[i].timestamp <= d[i - 1].timestamp}
             gap == {i \in 2..Len(d) :
                        Abs(d[i].open - d[i - 1].close) * 100 > 5 * d[i - 1].close}
         IN [isValid |-> missing = {} /\ ohlc = {} /\ order = {} /\ gap = {},
             noData |-> FALSE, missing |-> missing, ohlc |-> ohlc, order |-> order,
             gap |-> gap]

\* an entry that never expires within the clock's range
cacheExpiryHour == 12 * 5
\* cacheExpiry = 5 * 60 * 1000 ms
cacheExpiry == 5

SeriesPoints == 22
MaxMinutes == 6

\* the calls made on the manager
CacheKeys ==
    [symbol : {"EURUSD"}, timeFrame : {"15m"}, dataPoints : {2, SeriesPoints}]

\* time series answers of the quote API: none, three quotes a quarter of an
\* hour apart
Quote(price) == [open |-> price, high |-> price + 300, low |-> price - 200,
                 close |-> price + 100]
ApiTimeSeries ==
    {<<>>,
     (0 :> Quote(1200000)) @@ (15 :> Quote(1200100)) @@ (30 :> Quote(1200200))}
ApiAnswers ==
    {[kind |-> k] : k \in {"throws", "notok", "errorMessage", "note", "noSeries"}}
        \cup {[kind |-> "series", timeSeries |-> ts] : ts \in ApiTimeSeries}

DataInit ==
    /\ apiKey \in {"", "demo"}
    /\ drawFamily \in DrawFamilies
    /\ cache = <<>>
    /\ clockMinutes = 0
    /\ fetching = NoFetch
    /\ returned = NoReturn
    /\ script = "notebook"
    /\ params = <<>>
    /\ npFamily = "flat"
    /\ kmFamily = "single"
    /\ pc = "idle"
    /\ rng = NpSeed(0)
    /\ data = <<>>
    /\ extraction = NoExtraction
    /\ patterns = <<>>
    /\ statistics = <<>>
    /\ output = NoOutput
    /\ run = 1
    /\ firstOutput = NoOutput
    /\ ClientIdle
    /\ DashIdle

\* getHistoricalData up to its return or to the await of fetchFromAPI
GetHistoricalData ==
    /\ ~fetching.active
    /\ \E key \in CacheKeys :
          IF key \in DOMAIN cache /\ clockMinutes - cache[key].timestamp < cacheExpiry
          THEN /\ returned' = [source |-> "cache", key |-> key,
                               data |-> SubSeq(cache[key].data, 1,
                                               Min2(key.dataPoints, Len(cache[key].data)))]
               /\ UNCHANGED <<cache, fetching>>
          ELSE IF apiKey # ""
          THEN /\ fetching' = [active |-> TRUE, key |-> key]
               /\ UNCHANGED <<cache, returned>>
          ELSE LET generated == generateRealisticTestData(drawFamily, key, clockMinutes)
               IN /\ cache' = (key :> [data |-> generated, timestamp |-> clockMinutes])
                                 @@ cache
                  /\ returned' = [source |-> "generated", key |-> key, data |-> generated]
                  /\ UNCHANGED fetching
    /\ UNCHANGED <<apiKey, drawFamily, clockMinutes>>
    /\ UNCHANGED <<mineVars, clientVars, dashVars>>

\* the quote API answers the awaited fetch: the series is stored and
\* returned, or the catch clause returns generated data
FetchAnswered ==
    /\ fetching.active
    /\ \E answer \in ApiAnswers :
          IF answer.kind = "series"
          THEN LET fetched == fetchFromAPI(answer.timeSeries, fetching.key.dataPoints)
               IN /\ cache' = (fetching.key :> [data |-> fetched,
                                                timestamp |-> clockMinutes]) @@ cache
                  /\ returned' = [source |-> "api", key |-> fetching.key, data |-> fetched]
          ELSE /\ returned' =
                     [source |-> "fallback", key |-> fetching.key,
                      data |-> generateRealisticTestData(drawFamily, fetching.key,
                                                         clockMinutes)]
               /\ UNCHANGED cache
    /\ fetching' = NoFetch
    /\ UNCHANGED <<apiKey, drawFamily, clockMinutes>>
    /\ UNCHANGED <<mineVars, clientVars, dashVars>>

\* clearCache
ClearCache ==
    /\ cache' = <<>>
    /\ UNCHANGED <<apiKey, drawFamily, clockMinutes, fetching, returned>>
    /\ UNCHANGED <<mineVars, clientVars, dashVars>>

\* a minute passes
MinutePasses ==
    /\ clockMinutes < MaxMinutes
    /\ clockMinutes' = clockMinutes + 1
    /\ UNCHANGED <<apiKey, drawFamily, cache, fetching, returned>>
    /\ UNCHANGED <<mineVars, clientVars, dashVars>>

DataNext ==
    \/ GetHistoricalData
    \/ FetchAnswered
    \/ ClearCache
    \/ MinutePasses

SpecData == DataInit /\ [][DataNext]_vars

\* ------------------------------------- the status route, polled directly
MaxSeconds == 200

\* every part of the model but the dashboard and the status route at rest
RestIdle ==
    /\ script = "notebook"
    /\ params = <<>>
    /\ npFamily = "flat"
    /\ kmFamily = "single"
    /\ pc = "idle"
    /\ rng = NpSeed(0)
    /\ data = <<>>
    /\ extraction = NoExtraction
    /\ patterns = <<>>
    /\ statistics = <<>>
    /\ output = NoOutput
    /\ run = 1
    /\ firstOutput = NoOutput
    /\ ClientIdle
    /\ DataIdle

\* a job id: the form submitPatternMiningJob gave it, the Date.now() of
\* its time stamp in seconds, and the number of the submission, which
\* stands for the milliseconds
JobId(form, stamp, n) == [form |-> form, stamp |-> stamp, n |-> n]

\* the job a monitoring client polls
PolledJob == JobId("fallback", 0, 1)

\* what getJobStatus answered last for a job, with the answer of Kaggle it
\* was computed from
Polled(jobId, api) ==
    (jobId :> [api |-> api, age |-> clockSeconds - jobId.stamp,
               job |-> getJobStatusAnswer(jobId, api, clockSeconds - jobId.stamp)])
        @@ polls

StatusInit ==
    /\ dashboardState = InitialDashboardState
    /\ activeTab = "configure"
    /\ inflight = {}
    /\ clockSeconds = 0
    /\ submissions = 1
    /\ polls = <<>>
    /\ RestIdle

\* GET /api/kaggle/status?jobId=...
GetStatus ==
    /\ \E api \in StatusAnswers : polls' = Polled(PolledJob, api)
    /\ UNCHANGED <<dashboardState, activeTab, inflight, clockSeconds, submissions>>
    /\ UNCHANGED <<mineVars, clientVars, dataVars>>

\* the period of the dashboard's timer passes
TenSecondsPass ==
    /\ clockSeconds < MaxSeconds
    /\ clockSeconds' = clockSeconds + 10
    /\ UNCHANGED <<dashboardState, activeTab, inflight, submissions, polls>>
    /\ UNCHANGED <<mineVars, clientVars, dataVars>>

StatusNext ==
    \/ GetStatus
    \/ TenSecondsPass

SpecStatus == StatusInit /\ [][StatusNext]_vars

\* ------------------------------------ ForexPatternMiningDashboard (TSX)
MaxJobs == 2
MaxInflight == 2

\* answers of Kaggle's status endpoint while the dashboard is watched
DashStatusAnswers == {[kind |-> "throws"], [kind |-> "notok"]}

\* newJob of handleSubmitJob
NewJob(jobId) ==
    [none |-> FALSE, id |-> jobId, status |-> "submitted", progress |-> 0,
     endTime |-> FALSE, outputUrl |-> FALSE]

\* a setDashboardState(updates) that starts from the initial state
updateDashboardStateFromInitial(updates) ==
    [k \in DOMAIN InitialDashboardState |->
        IF k \in DOMAIN updates THEN updates[k] ELSE InitialDashboardState[k]]

\* setDashboardState(prev => ({ ...prev, ...updates }))
updateDashboardState(updates) ==
    [k \in DOMAIN dashboardState |->
        IF k \in DOMAIN updates THEN updates[k] ELSE dashboardState[k]]

\* jobHistory.map(job => job.id === jobId ? updatedJob : job)
MapHistory(jobHistory, jobId, updatedJob) ==
    [i \in 1..Len(jobHistory) |->
        IF jobHistory[i].id = jobId THEN updatedJob ELSE jobHistory[i]]

\* refreshJobStatus up to its fetch, called from a render whose
\* dashboardState.jobHistory was jobHistory
RefreshRequest(jobId, jobHistory) ==
    [kind |-> "refresh", jobId |-> jobId, jobHistory |-> jobHistory]

\* the answer of the results route to what getJobResults resolved with
ResultsRoute(results) ==
    CASE results.kind = "null" -> [status |-> 202, success |-> FALSE]
      [] results.kind = "throws" -> [status |-> 500, success |-> FALSE]
      [] OTHER -> [status |-> 200, success |-> TRUE, data |-> results]

DashInit ==
    /\ dashboardState = InitialDashboardState
    /\ activeTab = "configure"
    /\ inflight = {}
    /\ clockSeconds = 0
    /\ submissions = 0
    /\ polls = <<>>
    /\ RestIdle

\* handleSubmitJob up to its fetch; the submit button is disabled while
\* isLoading
HandleSubmitJob ==
    /\ ~dashboardState.isLoading
    /\ submissions < MaxJobs
    /\ dashboardState' = updateDashboardState([isLoading |-> TRUE, error |-> "null"])
    /\ inflight' = inflight \cup
                      {[kind |-> "submit", jobHistory |-> dashboardState.jobHistory]}
    /\ UNCHANGED <<activeTab, clockSeconds, submissions, polls>>
    /\ UNCHANGED <<mineVars, clientVars, dataVars>>

\* the submit route answers, or the fetch throws: the rest of
\* handleSubmitJob
SubmitAnswered ==
    /\ \E r \in inflight :
          /\ r.kind = "submit"
          /\ inflight' = inflight \ {r}
          /\ \E outcome \in {"notok", "failure", "fetchThrows"} :
                IF outcome = "notok"
                THEN LET result == submitPatternMiningJob(outcome)
                         newJob == NewJob(JobId(result.jobId.form, clockSeconds,
                                                submissions + 1))
                     IN /\ dashboardState' =
                              updateDashboardState(
                                 [activeJob |-> newJob,
                                  jobHistory |-> <<newJob>> \o r.jobHistory,
                                  isLoading |-> FALSE])
                        /\ activeTab' = "monitor"
                        /\ submissions' = submissions + 1
                ELSE /\ dashboardState' =
                           updateDashboardState(
                              [error |-> IF outcome = "failure"
                                         THEN "Failed to submit to Kaggle API"
                                         ELSE "Failed to fetch",
                               isLoading |-> FALSE])
                     /\ UNCHANGED <<activeTab, submissions>>
    /\ UNCHANGED <<clockSeconds, polls>>
    /\ UNCHANGED <<mineVars, clientVars, dataVars>>

\* the interval of the auto-refresh effect, which exists while the active
\* job is 'running', fires; the Refresh button of JobMonitor, shown while
\* the active job is 'running', makes the same call
TimerFires ==
    /\ ~dashboardState.activeJob.none
    /\ dashboardState.activeJob.status = "running"
    /\ Cardinality(inflight) < MaxInflight
    /\ inflight' = inflight \cup {RefreshRequest(dashboardState.activeJob.id,
                                                  dashboardState.jobHistory)}
    /\ UNCHANGED <<dashboardState, activeTab, clockSeconds, submissions, polls>>
    /\ UNCHANGED <<mineVars, clientVars, dataVars>>

\* the Cancel button of JobMonitor: handleCancelJob up to its fetch
HandleCancelJob ==
    /\ ~dashboardState.activeJob.none
    /\ dashboardState.activeJob.status \in {"running", "submitted"}
    /\ Cardinality(inflight) < MaxInflight
    /\ inflight' = inflight \cup
                      {[kind |-> "cancel", jobId |-> dashboardState.activeJob.id,
                        jobHistory |-> dashboardState.jobHistory]}
    /\ UNCHANGED <<dashboardState, activeTab, clockSeconds, submissions, polls>>
    /\ UNCHANGED <<mineVars, clientVars, dataVars>>

\* the status route answers the cancel request; after success with
\* cancelled = true handleCancelJob calls refreshJobStatus
CancelAnswered ==
    /\ \E r \in inflight :
          /\ r.kind = "cancel"
          /\ \E cancelled \in BOOLEAN :
                inflight' = (inflight \ {r}) \cup
                               IF cancelled
                               THEN {RefreshRequest(r.jobId, r.jobHistory)}
                               ELSE {}
    /\ UNCHANGED <<dashboardState, activeTab, clockSeconds, submissions, polls>>
    /\ UNCHANGED <<mineVars, clientVars, dataVars>>

\* the status route answers a refresh, or the fetch throws: the rest of
\* refreshJobStatus
RefreshAnswered ==
    /\ \E r \in inflight :
          /\ r.kind = "refresh"
          /\ \E answered \in BOOLEAN, api \in DashStatusAnswers :
                IF answered
                THEN LET updatedJob ==
                            getJobStatusAnswer(r.jobId, api, clockSeconds - r.jobId.stamp)
                     IN /\ polls' = Polled(r.jobId, api)
                        /\ dashboardState' =
                              updateDashboardState(
                                 [activeJob |-> updatedJob,
                                  jobHistory |-> MapHistory(r.jobHistory, r.jobId,
                                                            updatedJob)])
                        /\ inflight' = (inflight \ {r}) \cup
                                          IF updatedJob.status = "completed"
                                          THEN {[kind |-> "results", jobId |-> r.jobId]}
                                          ELSE {}
                ELSE /\ inflight' = inflight \ {r}
                     /\ UNCHANGED <<dashboardState, polls>>
    /\ UNCHANGED <<activeTab, clockSeconds, submissions>>
    /\ UNCHANGED <<mineVars, clientVars, dataVars>>

\* the results route answers fetchJobResults, or the fetch throws
ResultsAnswered ==
    /\ \E r \in inflight :
          /\ r.kind = "results"
          /\ inflight' = inflight \ {r}
          /\ \E answered \in BOOLEAN, api \in DashStatusAnswers,
                outputApi \in {"notok", "throws"} :
                IF answered
                THEN LET results == getJobResults(r.jobId, api,
                                                  clockSeconds - r.jobId.stamp, outputApi,
                                                  PrintedResults(output), 0)
                     IN /\ polls' = Polled(r.jobId, api)
                        /\ resultsResponse' = ResultsRoute(results)
                        /\ IF results.kind = "results"
                           THEN /\ dashboardState' =
                                      updateDashboardState(
                                         [results |-> [none |-> FALSE, data |-> results]])
                                /\ activeTab' = "results"
                           ELSE UNCHANGED <<dashboardState, activeTab>>
                ELSE UNCHANGED <<dashboardState, activeTab, polls, resultsResponse>>
    /\ UNCHANGED <<clockSeconds, submissions>>
    /\ UNCHANGED <<request, submitResponse, job, analysis>>
    /\ UNCHANGED <<mineVars, dataVars>>

\* a hundred seconds pass
HundredSecondsPass ==
    /\ clockSeconds < MaxSeconds
    /\ clockSeconds' = clockSeconds + 100
    /\ UNCHANGED <<dashboardState, activeTab, inflight, submissions, polls>>
    /\ UNCHANGED <<mineVars, clientVars, dataVars>>

DashNext ==
    \/ HandleSubmitJob
    \/ SubmitAnswered
    \/ TimerFires
    \/ HandleCancelJob
    \/ CancelAnswered
    \/ RefreshAnswered
    \/ ResultsAnswered
    \/ HundredSecondsPass

SpecDash == DashInit /\ [][DashNext]_vars

\* the dashboard with its timer firing while it is armed, every request
\* answered and time passing
SpecDashLive ==
    /\ DashInit
    /\ [][DashNext]_vars
    /\ WF_vars(TimerFires)
    /\ WF_vars(SubmitAnswered)
    /\ WF_vars(CancelAnswered)
    /\ WF_vars(RefreshAnswered)
    /\ WF_vars(ResultsAnswered)
    /\ WF_vars(HundredSecondsPass)

\* ============================================================== claims
Extracted == pc \in {"statistics", "emit", "done"}
Finished == pc \in {"done", "raised", "aborted"}
MinClusterSize == IF script = "kernel" THEN KernelMinClusterSize ELSE NotebookMinClusterSize

\* C1: a series no longer than the window size gives zero processed
\* windows, an empty pattern list, totalPatterns = 0 and no error.
C1_ShortSeriesEmpty ==
    (pc \in {"statistics", "emit", "done", "raised"} /\ Len(data) <= params.windowSize)
        => /\ pc # "raised"
           /\ extraction.processed = 0
           /\ patterns = <<>>
           /\ (pc \in {"emit", "done"} => statistics.totalPatterns = 0)
           /\ (pc = "done" => /\ output.markers
                              /\ output.patterns = <<>>
                              /\ output.statistics.totalPatterns = 0)

C1_Witness ==
    /\ pc = "done"
    /\ Len(data) = params.windowSize
    /\ output.statistics.totalPatterns = 0

\* C2: every returned pattern has 0 <= confidence <= 1, 0 < significance
\* <= 1, 0 < support <= 1 and support >= minSupport.
PatternInRange(p) ==
    /\ 0 <= p.confidence /\ p.confidence <= SCALE
    /\ 0 < p.significance /\ p.significance <= SCALE
    /\ 0 < p.support /\ p.support <= SCALE
    /\ p.support >= params.minSupport

C2_PatternRanges ==
    /\ Extracted => \A i \in 1..Len(patterns) : PatternInRange(patterns[i])
    /\ pc = "done" => \A i \in 1..Len(output.patterns) : PatternInRange(output.patterns[i])

C2_Witness ==
    /\ pc = "done"
    /\ Len(output.patterns) >= 2
    /\ \E i \in 1..Len(output.patterns) : output.patterns[i].support < SCALE

\* C3: a repeated execution with the same parameters and seed prints the
\* same patterns, statistics and metadata as the first one.
C3_Deterministic ==
    (run = 2 /\ Finished) => output = firstOutput

C3_Witness ==
    /\ run = 2
    /\ pc = "done"
    /\ script = "kernel"
    /\ output.patterns # <<>>
    /\ output = firstOutput

\* C4: every returned pattern's frequency is at least the script's minimum
\* cluster size, its support is frequency / surviving windows, and the
\* frequencies sum to at most the number of surviving windows.
C4_ClusterValidity ==
    Extracted =>
        /\ \A i \in 1..Len(patterns) :
              /\ patterns[i].frequency >= MinClusterSize
              /\ patterns[i].support
                    = FpDiv(patterns[i].frequency * SCALE, Len(extraction.windows))
        /\ SumSeq(Column(patterns, "frequency")) <= Len(extraction.windows)

C4_Witness ==
    /\ pc = "done"
    /\ script = "kernel"
    /\ Len(patterns) >= 2
    /\ SumSeq(Column(patterns, "frequency")) < Len(extraction.windows)

\* the cluster counts the running script tries
CandidateCounts(n) ==
    IF script = "kernel"
    THEN 3..(IF Min2(15, n \div 20) < 3 THEN 3 ELSE Min2(15, n \div 20))
    ELSE {Min2(10, Max2(3, n \div 20))}

\* KMeans puts every window into one cluster, for every candidate count
SingleClusterSweep ==
    LET n == Len(extraction.windows)
        trends == [i \in 1..n |-> extraction.windows[i].features.trend]
    IN /\ extraction.clustered
       /\ \A k \in CandidateCounts(n) :
             Cardinality({KMeansLabels(kmFamily, trends, k)[i] : i \in 1..n}) = 1

\* C9: when every candidate cluster count yields a single non-empty
\* cluster, the run reports no patterns and raises no error.
C9_SingleClusterNoPatterns ==
    (pc \in {"statistics", "emit", "done", "raised"} /\ SingleClusterSweep)
        => (patterns = <<>> /\ pc # "raised")

\* the fields of PatternMiningStatistics
RunStatisticsFields ==
    {"totalPatterns", "uniquePatterns", "avgConfidence", "avgSupport",
     "overallProfitability", "avgWinRate", "avgSharpeRatio", "bestPattern",
     "worstPattern", "patternFrequency", "timeFrameDistribution",
     "crossValidationScore", "bootstrapConfidence", "outOfSampleResults"}

\* every field is there and holds its zero value
ZeroStatistics(s) ==
    /\ RunStatisticsFields \subseteq DOMAIN s
    /\ \A f \in {"totalPatterns", "uniquePatterns", "avgConfidence", "avgSupport",
                 "overallProfitability", "avgWinRate", "avgSharpeRatio",
                 "crossValidationScore", "bootstrapConfidence"} : s[f] = 0
    /\ s.bestPattern = "" /\ s.worstPattern = ""
    /\ DOMAIN s.patternFrequency = {}
    /\ s.outOfSampleResults = [winRate |-> 0, avgReturn |-> 0, sharpeRatio |-> 0]

\* C10: with fewer than 10 surviving windows clustering is skipped, the
\* pattern list is empty and the statistics hold every field at zero.
C10_InsufficientDataZeroed ==
    (pc \in {"emit", "done"} /\ Len(extraction.windows) < MinWindowsForClustering)
        => /\ ~extraction.clustered
           /\ patterns = <<>>
           /\ ZeroStatistics(statistics)

\* the statistics objects a caller has been handed, each with its patterns
Delivered ==
    {[patterns |-> r.data.patterns, statistics |-> r.data.statistics] :
        r \in {x \in {resultsResponse, analysis} : x.success}}

BestWorstByProfitability(ps, st) ==
    /\ {"bestPattern", "worstPattern"} \subseteq DOMAIN st
    /\ \E i \in 1..Len(ps) :
          /\ ps[i].id = st.bestPattern
          /\ \A j \in 1..Len(ps) : ps[j].profitability <= ps[i].profitability
    /\ \E i \in 1..Len(ps) :
          /\ ps[i].id = st.worstPattern
          /\ \A j \in 1..Len(ps) : ps[j].profitability >= ps[i].profitability

\* C5: in every statistics object delivered with a non-empty pattern list,
\* bestPattern names a pattern of maximal profitability and worstPattern a
\* pattern of minimal profitability.
C5_BestWorstByProfitability ==
    \A d \in Delivered :
        d.patterns # <<>> => BestWorstByProfitability(d.patterns, d.statistics)

OutOfSampleDiscounted(st) ==
    /\ {"outOfSampleResults", "avgWinRate", "overallProfitability", "avgSharpeRatio"}
          \subseteq DOMAIN st
    /\ st.outOfSampleResults.winRate = FpDiv(st.avgWinRate * 85, 100)
    /\ st.outOfSampleResults.avgReturn = FpDiv(st.overallProfitability * 8, 10)
    /\ st.outOfSampleResults.sharpeRatio = FpDiv(st.avgSharpeRatio * 75, 100)

\* C6: in every delivered statistics object the out-of-sample results are
\* the averages discounted by 0.85 (win rate), 0.80 (return) and 0.75
\* (Sharpe ratio), hence all 0 for an empty pattern list.
C6_OutOfSampleDiscount ==
    \A d \in Delivered : OutOfSampleDiscounted(d.statistics)

\* C7: whatever getJobResults hands to the results route is the complete
\* output of the job's run: patterns, statistics and metadata are the ones
\* the run printed, none is defaulted or taken from elsewhere.
C7_CompleteRunResultOrNothing ==
    resultsResponse.success =>
        /\ output.markers
        /\ {"patterns", "statistics", "metadata"} \subseteq DOMAIN output
        /\ resultsResponse.data.patterns = output.patterns
        /\ resultsResponse.data.statistics = output.statistics
        /\ resultsResponse.data.metadata = output.metadata

\* section 6 of the specification: windowSize is a pattern length in bars,
\* minSupport lies in (0, 1], bootstrapSamples is at least 1
OutOfRange(r) ==
    \/ r.windowSize < 1
    \/ r.minSupport <= 0
    \/ r.minSupport > SCALE
    \/ r.bootstrapSamples <= 0

\* C8: a request with windowSize or minSupport out of range or with
\* bootstrapSamples <= 0 is answered with a rejection, and no job is
\* submitted and no jobId returned for it.
C8_InvalidParametersRejected ==
    (submitResponse # NoResponse /\ request.wellFormed /\ OutOfRange(request))
        => /\ ~submitResponse.success
           /\ ~job.submitted

\* every close of the generated series is the same
FlatSeries == \A i \in 1..Len(data) : data[i] = data[1]

\* C11: a series whose closes are all equal yields no pattern, whatever
\* the window size and the length: no window passes the noise filter.
C11_FlatSeriesNoPatterns ==
    (pc \in {"statistics", "emit", "done", "raised"} /\ FlatSeries)
        => /\ extraction.windows = <<>>
           /\ patterns = <<>>
           /\ (pc = "done" => output.patterns = <<>>)

C11_Witness ==
    /\ pc = "done"
    /\ FlatSeries
    /\ extraction.processed >= MinWindowsForClustering
    /\ output.patterns = <<>>

\* what getJobResults returns for a completed job whose output endpoint
\* serves the standard output of the finished script
RoundTrip ==
    getJobResults("job", [kind |-> "ok", status |-> "complete"], 200, "ok",
                  PrintedResults(output), 0)

\* C12: printing a result between the markers and parsing it back with
\* getJobResults gives the same number of patterns, the same ids in the
\* same order and the same statistics, the empty result included.
C12_RoundTrip ==
    pc = "done" =>
        /\ RoundTrip.kind = "results"
        /\ Len(RoundTrip.patterns) = Len(output.patterns)
        /\ \A i \in 1..Len(output.patterns) :
              RoundTrip.patterns[i].id = output.patterns[i].id
        /\ RoundTrip.statistics = output.statistics

C12_Witness ==
    /\ pc = "done"
    /\ Len(output.patterns) >= 2
    /\ output.statistics.overallProfitability < 0
    /\ RoundTrip.patterns = output.patterns
    /\ RoundTrip.statistics = output.statistics

\* the strength the noise filter of the running script looks at
WindowStrength(i) ==
    IF script = "kernel"
    THEN calculate_pattern_features(WindowCloses(data, i, params.windowSize)).pattern_strength
    ELSE NotebookFeatures(WindowCloses(data, i, params.windowSize)).volatility

WindowStart(w) == IF script = "kernel" THEN w.start_idx ELSE w.index

SurvivingStarts ==
    {WindowStart(extraction.windows[j]) : j \in 1..Len(extraction.windows)}

\* C13: a window is handed to the clustering exactly when its pattern
\* strength is at least params.noiseFilter.
C13_NoiseFilterConfigured ==
    (Extracted /\ "noiseFilter" \in DOMAIN params)
        => \A i \in 0..(Len(data) - params.windowSize - 1) :
              (i \in SurvivingStarts) <=> (WindowStrength(i) >= params.noiseFilter)

\* the cluster count of the final clustering
UsedClusterCount ==
    LET n == Len(extraction.windows)
        trends == [i \in 1..n |-> extraction.windows[i].features.trend]
    IN IF script = "kernel" THEN KernelOptimalClusters(kmFamily, trends)
       ELSE NotebookClusterCount(n)

\* the candidate range [3, min(15, max(3, floor(n / 20)))]
CandidateRange(n) == 3..Min2(15, Max2(3, n \div 20))

\* the quality of a candidate: the silhouette score, or the worst score
\* when its clustering has a single non-empty cluster
CandidateScore(k) ==
    LET n == Len(extraction.windows)
        trends == [i \in 1..n |-> extraction.windows[i].features.trend]
    IN IF Cardinality({KMeansLabels(kmFamily, trends, k)[i] : i \in 1..n}) > 1
       THEN SilhouetteScore(kmFamily, k)
       ELSE 0 - SCALE

\* C14: with at least 10 surviving windows the final clustering uses a
\* cluster count of the candidate range whose score is maximal in the range.
C14_BestClusterCount ==
    (Extracted /\ extraction.clustered)
        => /\ UsedClusterCount \in CandidateRange(Len(extraction.windows))
           /\ \A k \in CandidateRange(Len(extraction.windows)) :
                 CandidateScore(k) <= CandidateScore(UsedClusterCount)

\* the values max(0.1, 1 - p_value) can take when p_value is a fraction
\* of B resamples
BootstrapSignificances(B) ==
    {Max2(SCALE \div 10, SCALE - FpDiv(h * SCALE, B)) : h \in 0..B}

\* C15: every pattern's significance is max(0.1, 1 - p_value), p_value
\* being the fraction of params.bootstrapSamples resampled means whose
\* magnitude reaches the observed mean's.
C15_BootstrapSignificance ==
    (Extracted /\ "bootstrapSamples" \in DOMAIN params)
        => \A i \in 1..Len(patterns) :
              patterns[i].significance \in BootstrapSignificances(params.bootstrapSamples)

\* the windows of the cluster a pattern was made from
MembersOf(p) ==
    LET n == Len(extraction.windows)
        trends == [i \in 1..n |-> extraction.windows[i].features.trend]
        labels == KMeansLabels(kmFamily, trends, UsedClusterCount)
        c == CHOOSE c \in 0..(UsedClusterCount - 1) : PatternId(c) = p.id
    IN ClusterWindows(extraction.windows, labels, c)

MeanTrend(p) ==
    NpMean([i \in 1..Len(MembersOf(p)) |-> MembersOf(p)[i].features.trend])
MeanMomentum(p) ==
    NpMean([i \in 1..Len(MembersOf(p)) |-> MembersOf(p)[i].features.momentum])
\* 0.01 in the kernel script, 0.002 in the notebook script
TrendThreshold == IF script = "kernel" THEN SCALE \div 100 ELSE SCALE \div 500

\* C16: a pattern is bullish exactly when the mean trend of its cluster is
\* above the threshold and the mean momentum is positive, bearish exactly
\* when the mean trend is below the negated threshold and the mean momentum
\* is negative, and neutral in every other case.
C16_TypeClassification ==
    Extracted =>
        \A i \in 1..Len(patterns) :
            LET p == patterns[i]
                up == MeanTrend(p) > TrendThreshold /\ MeanMomentum(p) > 0
                down == MeanTrend(p) < 0 - TrendThreshold /\ MeanMomentum(p) < 0
            IN /\ p.type = "bullish" <=> up
               /\ p.type = "bearish" <=> down
               /\ p.type = "neutral" <=> (~up /\ ~down)

C16_Witness ==
    /\ pc = "done"
    /\ \E i \in 1..Len(patterns) : patterns[i].type = "bullish"
    /\ \E i \in 1..Len(patterns) : patterns[i].type = "bearish"
    /\ \E i \in 1..Len(patterns) :
          /\ patterns[i].type = "neutral"
          /\ Abs(MeanTrend(patterns[i])) > TrendThreshold

\* size of the cluster with the given id in the final clustering
ClusterSize(c) ==
    LET n == Len(extraction.windows)
        trends == [i \in 1..n |-> extraction.windows[i].features.trend]
        labels == KMeansLabels(kmFamily, trends, UsedClusterCount)
    IN Cardinality({i \in 1..n : labels[i] = c})

\* the clusters that pass the support and the size threshold
RetainedClusters ==
    {c \in 0..(UsedClusterCount - 1) :
        /\ ClusterSize(c) >= MinClusterSize
        /\ FpDiv(ClusterSize(c) * SCALE, Len(extraction.windows)) >= params.minSupport}

\* pattern_ followed by the three decimal digits of n
PaddedId(n) ==
    "pattern_" \o ToString(n \div 100) \o ToString((n \div 10) % 10) \o ToString(n % 10)

\* C17: there is exactly one pattern per retained cluster, and the ids of
\* a run are pairwise distinct and of the form pattern_NNN.
C17_OnePatternPerCluster ==
    (Extracted /\ extraction.clustered) =>
        /\ Len(patterns) = Cardinality(RetainedClusters)
        /\ \A i, j \in 1..Len(patterns) : patterns[i].id = patterns[j].id => i = j
        /\ \A i \in 1..Len(patterns) : \E c \in RetainedClusters : patterns[i].id = PaddedId(c)

C17_Witness ==
    /\ pc = "done"
    /\ Len(patterns) >= 2
    /\ Cardinality(RetainedClusters) < UsedClusterCount
    /\ Len(patterns) = Cardinality(RetainedClusters)

\* the two timestamp literals of the kernel script, in seconds after
\* 2024-01-01 00:00:00
IsoSeconds(s) ==
    CASE s = "2024-01-01T00:00:00Z" -> 0
      [] s = "2024-01-31T23:59:59Z" -> ((30 * 24 + 23) * 60 + 59) * 60 + 59

BarSeconds(i) == IF script = "kernel" THEN KernelBarSeconds(i) ELSE NotebookBarSeconds(i)

MemberStarts(p) == {WindowStart(MembersOf(p)[j]) : j \in 1..Len(MembersOf(p))}

\* C18: firstSeen is the timestamp of the earliest member window of the
\* pattern's cluster and lastSeen that of the latest one, so both are
\* timestamps of bars of the series and firstSeen <= lastSeen.
C18_SeenFromMembers ==
    Extracted =>
        \A i \in 1..Len(patterns) :
            LET p == patterns[i]
            IN /\ {"firstSeen", "lastSeen"} \subseteq DOMAIN p
               /\ \E a \in MemberStarts(p) :
                     /\ \A b \in MemberStarts(p) : a <= b
                     /\ IsoSeconds(p.firstSeen) = BarSeconds(a)
               /\ \E a \in MemberStarts(p) :
                     /\ \A b \in MemberStarts(p) : a >= b
                     /\ IsoSeconds(p.lastSeen) = BarSeconds(a)

MeanVolatility(p) ==
    NpMean([i \in 1..Len(MembersOf(p)) |-> MembersOf(p)[i].features.volatility])

\* profitability / (volatility + 0.001)
SharpeQuotient(p) == FpDiv(p.profitability * SCALE, MeanVolatility(p) + SCALE \div 1000)

\* C19 (as claimed): every pattern's sharpeRatio is profitability /
\* (volatility + epsilon) for every sign of the profitability.
C19_SharpeRatioAnySign ==
    Extracted => \A i \in 1..Len(patterns) :
                    patterns[i].sharpeRatio = SharpeQuotient(patterns[i])

\* C19 (amended): every pattern's sharpeRatio is profitability /
\* (volatility + 0.001) when that quotient is positive and 0 otherwise.
C19_SharpeRatioClamped ==
    Extracted => \A i \in 1..Len(patterns) :
                    patterns[i].sharpeRatio =
                        IF SharpeQuotient(patterns[i]) > 0
                        THEN SharpeQuotient(patterns[i]) ELSE 0

C19_Witness ==
    /\ pc = "done"
    /\ \E i \in 1..Len(patterns) :
          patterns[i].profitability < 0 /\ patterns[i].sharpeRatio = 0
    /\ \E i \in 1..Len(patterns) :
          patterns[i].profitability > 0 /\ patterns[i].sharpeRatio > 0

MeanConfidenceTimesSignificance(ps) ==
    NpMean([i \in 1..Len(ps) |-> FpMul(ps[i].confidence, ps[i].significance)])

\* C20: in every statistics object delivered with a non-empty pattern list
\* (by the results route for a completed job, by the analyze endpoint),
\* bootstrapConfidence is the arithmetic mean over the patterns of
\* confidence * significance.
C20_BootstrapConfidenceIsMean ==
    \A d \in Delivered :
        d.patterns # <<>> =>
            /\ "bootstrapConfidence" \in DOMAIN d.statistics
            /\ d.statistics.bootstrapConfidence =
                  MeanConfidenceTimesSignificance(d.patterns)

BarWithinRange(bar) ==
    /\ bar.low <= bar.open /\ bar.open <= bar.high
    /\ bar.low <= bar.close /\ bar.close <= bar.high

\* C21: every bar of a series the data manager generated satisfies
\* low <= open <= high and low <= close <= high.
C21_GeneratedBarsWithinRange ==
    returned.source \in {"generated", "fallback"} =>
        \A i \in 1..Len(returned.data) : BarWithinRange(returned.data[i])

\* C22: every series getHistoricalData returned (fetched, generated or
\* served from the cache) has strictly increasing timestamps: validateData
\* reports no ordering issue on it.
C22_ReturnedSeriesChronological ==
    returned.source # "none" =>
        /\ validateData(returned.data).order = {}
        /\ \A i, j \in 1..Len(returned.data) :
              i < j => returned.data[i].timestamp < returned.data[j].timestamp

\* the entry of a key was stored less than five minutes ago
StoredWithinFiveMinutes(key) ==
    key \in DOMAIN cache /\ clockMinutes - cache[key].timestamp < 5

\* a getHistoricalData call for key returns in this step
CallReturns(key) ==
    returned' # returned /\ returned'.key = key

\* C24: a call whose key was stored less than 5 minutes earlier returns the
\* stored series and neither fetches nor generates; any other call fetches
\* or generates and, unless the error fallback answered, replaces the entry
\* with what it returns; the fallback leaves the cache as it was.
C24_CachePolicy ==
    [][\A key \in CacheKeys :
          /\ (~fetching.active /\ CallReturns(key) /\ StoredWithinFiveMinutes(key))
                => /\ returned'.source = "cache"
                   /\ returned'.data = cache[key].data
                   /\ cache' = cache
          /\ (fetching'.active /\ ~fetching.active /\ fetching'.key = key)
                => ~StoredWithinFiveMinutes(key)
          /\ (CallReturns(key) /\ returned'.source = "cache")
                => StoredWithinFiveMinutes(key)
          /\ (CallReturns(key) /\ returned'.source \in {"generated", "api"})
                => /\ fetching.active \/ ~StoredWithinFiveMinutes(key)
                   /\ cache'[key] = [data |-> returned'.data, timestamp |-> clockMinutes]
          /\ (CallReturns(key) /\ returned'.source = "fallback")
                => cache' = cache]_vars

C24_Witness ==
    /\ returned.source = "cache"
    /\ returned.key \in DOMAIN cache
    /\ cache[returned.key].timestamp >= 5
    /\ clockMinutes > cache[returned.key].timestamp
    /\ returned.data = cache[returned.key].data

\* C27: submitPatternMiningJob resolves with a job id for every outcome of
\* the kernel push; after a non-OK answer and after an exception the id has
\* the form <username>/forex-pattern-<timestamp>; the submit route then
\* answers success = true with status 'submitted' although no kernel exists.
C27_SubmitNeverRejects ==
    /\ (submitResponse # NoResponse /\ request.wellFormed
           /\ request.hasCurrencyPair /\ request.hasTimeFrame)
          => /\ job.submitted
             /\ submitResponse.status = 200
             /\ submitResponse.success
             /\ submitResponse.data.status = "submitted"
             /\ submitResponse.data.jobId = job.jobId
    /\ job.submitted
          => /\ job.jobId.form \in {"ref", "fallback"}
             /\ ~job.created => job.jobId.form = "fallback"

C27_Witness ==
    /\ job.submitted
    /\ ~job.created
    /\ job.jobId.form = "fallback"
    /\ submitResponse.success
    /\ submitResponse.data.status = "submitted"

Terminal == {"completed", "failed", "cancelled"}

\* C23: a job that handleSubmitJob made the active job with status
\* 'submitted' eventually shows a terminal status, with no user action.
C23_SubmittedJobReachesTerminal ==
    (~dashboardState.activeJob.none /\ dashboardState.activeJob.status = "submitted")
        ~> (~dashboardState.activeJob.none
               /\ dashboardState.activeJob.status \in Terminal)

\* the request whose answer this step handles
Answered(kind) == {r \in inflight \ inflight' : r.kind = kind}

\* C25: the results route answers 202 without data whenever getJobStatus
\* reports another status than 'completed'; the dashboard asks for results
\* only when a refresh has just reported 'completed' for that job, and sets
\* results (opening the Results tab) only from the answer to such a request.
C25_ResultsOnlyForCompleted ==
    [][/\ \A r \in inflight' \ inflight :
             r.kind = "results"
                => /\ dashboardState'.activeJob.status = "completed"
                   /\ dashboardState'.activeJob.id = r.jobId
                   /\ \E q \in Answered("refresh") : q.jobId = r.jobId
       /\ \A r \in Answered("results") :
             (polls' # polls \/ resultsResponse' # resultsResponse)
                => IF polls'[r.jobId].job.status = "completed"
                   THEN resultsResponse'.status \in {200, 500}
                   ELSE /\ resultsResponse' = [status |-> 202, success |-> FALSE]
                        /\ dashboardState' = dashboardState
       /\ dashboardState'.results # dashboardState.results
             => /\ \E r \in Answered("results") :
                      /\ dashboardState'.results.data.jobId = r.jobId
                      /\ polls'[r.jobId].job.status = "completed"
                /\ resultsResponse'.success
                /\ activeTab' = "results"]_vars

C25_Witness ==
    /\ ~dashboardState.results.none
    /\ activeTab = "results"
    /\ resultsResponse.success
    /\ polls[dashboardState.results.data.jobId].job.status = "completed"

StatusRank(status) ==
    CASE status = "submitted" -> 0 [] status = "running" -> 1 [] OTHER -> 2

\* what the demo status of a job of the given age is to be
DemoStatusAsClaimed(p) ==
    /\ p.age <= 30 => p.job.status = "submitted" /\ p.job.progress = 10 * SCALE
    /\ (p.age > 30 /\ p.age <= 180)
          => /\ p.job.status = "running"
             /\ p.job.progress = Min2(90 * SCALE, (p.age * 100 * SCALE) \div 180)
    /\ p.age > 180 => p.job.status = "completed" /\ p.job.progress = 100 * SCALE
    /\ p.job.status # "completed" => p.job.progress <= 90 * SCALE
    /\ p.job.endTime <=> p.job.status = "completed"
    /\ p.job.outputUrl <=> p.job.status = "completed"

\* C26: after a non-OK answer of Kaggle the status is 'submitted' with
\* progress 10 up to 30 s, 'running' with progress min(90, age/180*100) up
\* to 180 s, 'completed' with progress 100 after; from one such poll to the
\* next the status does not move backwards and progress does not decrease;
\* endTime and outputUrl are set exactly when the status is 'completed'.
C26_DemoStatusByAge ==
    /\ [](\A j \in DOMAIN polls :
             polls[j].api.kind = "notok" => DemoStatusAsClaimed(polls[j]))
    /\ [][\A j \in DOMAIN polls \cap DOMAIN polls' :
             (polls[j].api.kind = "notok" /\ polls'[j].api.kind = "notok")
                => /\ StatusRank(polls'[j].job.status) >= StatusRank(polls[j].job.status)
                   /\ polls'[j].job.progress >= polls[j].job.progress]_vars

C26_Witness ==
    /\ PolledJob \in DOMAIN polls
    /\ polls[PolledJob].api.kind = "notok"
    /\ polls[PolledJob].age = 170
    /\ polls[PolledJob].job.status = "running"
    /\ polls[PolledJob].job.progress = 90 * SCALE

\* C28: no step removes a job from jobHistory or shortens it, and the
\* answer to a refresh that was started before the active job was
\* submitted does not replace the active job.
C28_JobHistoryKept ==
    [][/\ Len(dashboardState'.jobHistory) >= Len(dashboardState.jobHistory)
       /\ \A i \in 1..Len(dashboardState.jobHistory) :
             \E j \in 1..Len(dashboardState'.jobHistory) :
                dashboardState'.jobHistory[j].id = dashboardState.jobHistory[i].id
       /\ \A r \in Answered("refresh") :
             (/\ ~dashboardState.activeJob.none
              /\ \A i \in 1..Len(r.jobHistory) :
                    r.jobHistory[i].id # dashboardState.activeJob.id)
                => dashboardState'.activeJob.id = dashboardState.activeJob.id]_vars

\* C29: handleSubmitJob sets isLoading and clears error; when the
\* submission fails the error is stored, isLoading reset, activeJob and
\* jobHistory left as they were; when it succeeds isLoading is reset, error
\* is still null and the new job, with status 'submitted', is the active job
\* and the first element of jobHistory; isLoading is false whenever no
\* handleSubmitJob is under way.
C29_SubmitOutcome ==
    /\ []((\A r \in inflight : r.kind # "submit") => ~dashboardState.isLoading)
    /\ [][/\ \A r \in inflight' \ inflight :
                r.kind = "submit"
                   => dashboardState'.isLoading /\ dashboardState'.error = "null"
          /\ \A r \in Answered("submit") :
                /\ ~dashboardState'.isLoading
                /\ IF submissions' # submissions
                   THEN /\ dashboardState'.error = "null"
                        /\ dashboardState'.activeJob.status = "submitted"
                        /\ dashboardState'.activeJob # dashboardState.activeJob
                        /\ Len(dashboardState'.jobHistory) >= 1
                        /\ dashboardState'.jobHistory[1] = dashboardState'.activeJob
                   ELSE /\ dashboardState'.error # "null"
                        /\ dashboardState'.activeJob = dashboardState.activeJob
                        /\ dashboardState'.jobHistory = dashboardState.jobHistory]_vars

C29_Witness ==
    /\ dashboardState.error # "null"
    /\ ~dashboardState.isLoading
    /\ Len(dashboardState.jobHistory) = 1
    /\ ~dashboardState.activeJob.none
    /\ inflight = {}

\* the dashboard status the table of mapKaggleStatus lists for a status
ListedStatus(kaggleStatus) ==
    CASE kaggleStatus = "queued" -> "submitted"
      [] kaggleStatus \in {"starting", "running", "RUNNING"} -> "running"
      [] kaggleStatus = "complete" -> "completed"
      [] kaggleStatus = "error" -> "failed"
      [] kaggleStatus \in {"cancelled", "cancelAcknowledged"} -> "cancelled"
      [] OTHER -> "submitted"

\* C30: after an OK answer of Kaggle the status is the one mapKaggleStatus
\* lists for Kaggle's status, whatever its letter case; 'completed' comes
\* with progress 100, 'failed' and 'cancelled' with progress 0.
C30_StatusTable ==
    \A j \in DOMAIN polls :
        polls[j].api.kind = "ok"
           => /\ polls[j].job.status = ListedStatus(polls[j].api.status)
              /\ polls[j].job.status = "completed" => polls[j].job.progress = 100 * SCALE
              /\ polls[j].job.status \in {"failed", "cancelled"}
                    => polls[j].job.progress = 0

====
